---- MODULE Spec2Model ----
(***************************************************************************)
(* Model of the LucaGame hex-grid decision engine: the HexGrid utility     *)
(* (src/src/utils/HexGrid.js): grid generation, neighbours, distance, the  *)
(* A* search findPath, and the line-of-sight test hasLineOfSight; the      *)
(* enemy turn logic of src/src/entities/Enemy.js; and the turn management  *)
(* of the battle scene (src/unnamed/part_002).                             *)
(*                                                                         *)
(* Coordinates are records [q |-> Int, r |-> Int].  JavaScript numbers are *)
(* integers here except for the value Infinity, which findPath produces    *)
(* and which is modelled by the operators JsOr, JsAdd, JsLess, Compare.    *)
(* The fractional cube coordinates of getHexLine are the exact rationals   *)
(* n/N, carried as the numerator n and the common denominator N.           *)
(***************************************************************************)
EXTENDS Integers, Sequences, FiniteSets

VARIABLES
    hexes,      \* HexGrid.hexes: the generated list of valid hexes
    call,       \* the activation of a HexGrid utility call: arguments, result
    fp,         \* the activation of findPath: arguments, locals, result
    fpOrder,    \* history: the keys pushed to openSet, in push order
    los,        \* the activation of hasLineOfSight: arguments, result
    scene,      \* the BattleScene fields the turn logic reads and writes
    enemies,    \* scene.enemies: the list of Enemy objects
    turn        \* the activation of startEnemyPhase and of the executeTurn
                \* it awaits: code position (pc, index, resume), the locals
                \* dist and hasLOS, and the history of the latest turn: the
                \* enemy that took it (actor), where it began (origin) and
                \* what it did (log)

vars == <<hexes, call, fp, fpOrder, los, scene, enemies, turn>>

(***************************************************************************)
(* Bounds of the model.                                                    *)
(***************************************************************************)
\* radius of the grid the findPath calls run on
PathGridRadius == 1
\* largest number of obstacles handed to findPath
MaxObstacles == 3
\* radius of the region the line-of-sight endpoints are drawn from
LosRadius == 2
\* largest number of blockers handed to hasLineOfSight
MaxBlockers == 1

(***************************************************************************)
(* Values fixed by the program.                                            *)
(***************************************************************************)
\* BattleScene.create: const gridRadius = 5
gridRadius == 5
\* BattleScene.init: this.playerMaxHP = 20
playerMaxHP == 20
\* BattleScene.init: this.maxActionPoints = 3
maxActionPoints == 3

playerDamage == 2

playerAttackCost == 1

(***************************************************************************)
(* JavaScript values.                                                      *)
(***************************************************************************)
\* the number Infinity (findPath, line 225); never used in Int arithmetic
Infinity == -1

Abs(x) == IF x < 0 THEN -x ELSE x

Max(a, b) == IF a >= b THEN a ELSE b

Min(a, b) == IF a <= b THEN a ELSE b

\* x || Infinity, for x a number or undefined (absent): 0 is falsy
JsOr(defined, x) == IF defined /\ x # 0 THEN x ELSE Infinity

\* a + b on numbers that may be Infinity
JsAdd(a, b) == IF a = Infinity \/ b = Infinity THEN Infinity ELSE a + b

\* a < b on numbers that may be Infinity
JsLess(a, b) ==
    IF a = Infinity THEN FALSE
    ELSE IF b = Infinity THEN TRUE
    ELSE a < b

Hex(q, r) == [q |-> q, r |-> r]

\* map.set(k, v)
MapSet(m, k, v) == [x \in DOMAIN m \cup {k} |-> IF x = k THEN v ELSE m[x]]

EmptyMap == [x \in {} |-> 0]

(***************************************************************************)
(* HexGrid: generation, validity, neighbours, distance.                    *)
(***************************************************************************)
RECURSIVE HexColumn(_, _, _)
\* the inner loop of generateHexGrid: r from r1 to r2
HexColumn(q, r, r2) ==
    IF r > r2 THEN <<>>
    ELSE <<[q |-> q, r |-> r, s |-> -q - r]>> \o HexColumn(q, r + 1, r2)

RECURSIVE HexColumns(_, _)
\* the outer loop of generateHexGrid: q from -radius to radius
HexColumns(q, radius) ==
    IF q > radius THEN <<>>
    ELSE HexColumn(q, Max(-radius, -q - radius), Min(radius, -q + radius))
             \o HexColumns(q + 1, radius)

\* mutant: every hex is pushed twice
generateHexGridTwice(radius) ==
    HexColumns(-radius, radius) \o HexColumns(-radius, radius)

generateHexGrid(radius) == HexColumns(-radius, radius)

isValidHex(q, r) == \E i \in DOMAIN hexes : hexes[i].q = q /\ hexes[i].r = r

\* mutant: the direction (0, 1) is missing
directionsFive ==
    << Hex(1, 0), Hex(1, -1), Hex(0, -1), Hex(-1, 0), Hex(-1, 1) >>

\* mutant: the last direction is (1, 1), which is no neighbour
directionsSkewed ==
    << Hex(1, 0), Hex(1, -1), Hex(0, -1), Hex(-1, 0), Hex(-1, 1), Hex(1, 1) >>

directions ==
    << Hex(1, 0), Hex(1, -1), Hex(0, -1), Hex(-1, 0), Hex(-1, 1), Hex(0, 1) >>

\* mutant: the filter on isValidHex is missing
getNeighborsUnfiltered(q, r) ==
    [i \in DOMAIN directions |->
        Hex(q + directions[i].q, r + directions[i].r)]

getNeighbors(q, r) ==
    LET mapped == [i \in DOMAIN directions |->
                      Hex(q + directions[i].q, r + directions[i].r)]
        Valid(h) == isValidHex(h.q, h.r)
    IN  SelectSeq(mapped, Valid)

\* mutant: the term of the third cube axis is missing
getDistanceTwoAxes(q1, r1, q2, r2) ==
    (Abs(q1 - q2) + Abs(r1 - r2)) \div 2

getDistance(q1, r1, q2, r2) ==
    (Abs(q1 - q2) + Abs(q1 + r1 - q2 - r2) + Abs(r1 - r2)) \div 2

(***************************************************************************)
(* findPath.  The activation record fp holds                               *)
(*   pc        "idle" (no call yet), "loop" (at the while test), "done"    *)
(*   start, goal, obstacles   the arguments                                *)
(*   openSet   sequence of [q, r, f]                                       *)
(*   closedSet set of keys;  cameFrom, gScore, fScore   maps on keys       *)
(*   ret       "none" (not returned yet), "null", or "path"                *)
(*   path      the returned sequence of coordinates when ret = "path"      *)
(*   expanded  number of iterations of the while loop so far               *)
(***************************************************************************)
hexKey(q, r) == <<q, r>>

\* mutant: obstacles are ignored
isBlockedNever(obstacles, q, r) == FALSE

isBlocked(obstacles, q, r) == \E obs \in obstacles : obs.q = q /\ obs.r = r

\* the comparator (a, b) => a.f - b.f as sort reads it: NaN counts as +0
Compare(a, b) ==
    IF a.f = Infinity /\ b.f = Infinity THEN 0
    ELSE IF a.f = Infinity THEN 1
    ELSE IF b.f = Infinity THEN -1
    ELSE a.f - b.f

RECURSIVE InsertSortedBeforeEqual(_, _)
\* mutant: x placed in front of the elements it compares equal to
InsertSortedBeforeEqual(sorted, x) ==
    IF sorted = <<>> THEN <<x>>
    ELSE IF Compare(Head(sorted), x) >= 0 THEN <<x>> \o sorted
    ELSE <<Head(sorted)>> \o InsertSortedBeforeEqual(Tail(sorted), x)

RECURSIVE InsertSorted(_, _)
\* x placed behind every element that does not compare greater than it
InsertSorted(sorted, x) ==
    IF sorted = <<>> THEN <<x>>
    ELSE IF Compare(Head(sorted), x) > 0 THEN <<x>> \o sorted
    ELSE <<Head(sorted)>> \o InsertSorted(Tail(sorted), x)

RECURSIVE SortOpenSetNewestFirst(_)
\* mutant: an unstable sort that leaves the newest of equal entries in front
SortOpenSetNewestFirst(s) ==
    IF s = <<>> THEN <<>>
    ELSE InsertSorted(SortOpenSetNewestFirst(Tail(s)), Head(s))

RECURSIVE SortOpenSet(_)
\* openSet.sort((a, b) => a.f - b.f): Array.prototype.sort is stable
SortOpenSet(s) ==
    IF s = <<>> THEN <<>>
    ELSE InsertSorted(SortOpenSet(SubSeq(s, 1, Len(s) - 1)), s[Len(s)])

\* mutant: a start that is listed as an obstacle is not searched from
FindPathEnterBlockedStart(start, goal, obstacles) ==
    LET startH == getDistance(start.q, start.r, goal.q, goal.r)
        startKey == hexKey(start.q, start.r)
    IN  [ pc |-> "loop", start |-> start, goal |-> goal,
          obstacles |-> obstacles,
          openSet |-> IF isBlocked(obstacles, start.q, start.r) THEN <<>>
                      ELSE << [q |-> start.q, r |-> start.r, f |-> startH] >>,
          closedSet |-> {},
          cameFrom |-> EmptyMap,
          gScore |-> MapSet(EmptyMap, startKey, 0),
          fScore |-> MapSet(EmptyMap, startKey, startH),
          ret |-> "none", path |-> <<>>, expanded |-> 0 ]

\* the state of findPath on reaching the while loop (lines 172-188)
FindPathEnter(start, goal, obstacles) ==
    LET startH == getDistance(start.q, start.r, goal.q, goal.r)
        startKey == hexKey(start.q, start.r)
    IN  [ pc |-> "loop", start |-> start, goal |-> goal,
          obstacles |-> obstacles,
          openSet |-> << [q |-> start.q, r |-> start.r, f |-> startH] >>,
          closedSet |-> {},
          cameFrom |-> EmptyMap,
          gScore |-> MapSet(EmptyMap, startKey, 0),
          fScore |-> MapSet(EmptyMap, startKey, startH),
          ret |-> "none", path |-> <<>>, expanded |-> 0 ]

\* tentativeG = (gScore.get(currentKey) || Infinity) + 1   (line 225)
TentativeG(gScore, currentKey) ==
    JsAdd(JsOr(currentKey \in DOMAIN gScore,
               IF currentKey \in DOMAIN gScore THEN gScore[currentKey] ELSE 0),
          1)

\* one pass of the body of "for (const neighbor of neighbors)" (lines 218-243)
VisitNeighbor(st, current, neighbor) ==
    LET neighborKey == hexKey(neighbor.q, neighbor.r)
        currentKey == hexKey(current.q, current.r)
        tentativeG == TentativeG(st.gScore, currentKey)
        h == getDistance(neighbor.q, neighbor.r, st.goal.q, st.goal.r)
        f == JsAdd(tentativeG, h)
        inOpen == \E i \in DOMAIN st.openSet :
                     st.openSet[i].q = neighbor.q /\ st.openSet[i].r = neighbor.r
    IN  IF neighborKey \in st.closedSet THEN st
        ELSE IF isBlocked(st.obstacles, neighbor.q, neighbor.r) THEN st
        ELSE IF neighborKey \notin DOMAIN st.gScore
                \/ JsLess(tentativeG, st.gScore[neighborKey])
        THEN [st EXCEPT
                !.cameFrom = MapSet(@, neighborKey, Hex(current.q, current.r)),
                !.gScore = MapSet(@, neighborKey, tentativeG),
                !.fScore = MapSet(@, neighborKey, f),
                !.openSet = IF inOpen THEN @
                            ELSE Append(@, [q |-> neighbor.q, r |-> neighbor.r,
                                            f |-> f])]
        ELSE st

RECURSIVE VisitNeighbors(_, _, _)
VisitNeighbors(st, current, neighbors) ==
    IF neighbors = <<>> THEN st
    ELSE VisitNeighbors(VisitNeighbor(st, current, Head(neighbors)),
                        current, Tail(neighbors))

RECURSIVE ReconstructPathPushed(_, _)
\* mutant: path.push(curr) in place of path.unshift(curr)
ReconstructPathPushed(cameFrom, curr) ==
    LET key == hexKey(curr.q, curr.r)
    IN  IF key \in DOMAIN cameFrom
        THEN <<curr>> \o ReconstructPathPushed(cameFrom, cameFrom[key])
        ELSE <<curr>>

RECURSIVE ReconstructPath(_, _)
\* while (curr) { path.unshift(curr); curr = cameFrom.get(key) } (lines 199-205)
ReconstructPath(cameFrom, curr) ==
    LET key == hexKey(curr.q, curr.r)
    IN  IF key \in DOMAIN cameFrom
        THEN ReconstructPath(cameFrom, cameFrom[key]) \o <<curr>>
        ELSE <<curr>>

\* mutant: the start is left in the path
ShiftStartForgotten(chain) == chain

\* path.shift(): the start is removed from the reconstructed chain (line 208)
ShiftStart(chain) == Tail(chain)

\* one iteration of "while (openSet.length > 0)" (lines 190-245)
FindPathIteration(st) ==
    LET sorted == SortOpenSet(st.openSet)
        current == Head(sorted)
        currentKey == hexKey(current.q, current.r)
        popped == [st EXCEPT !.openSet = Tail(sorted),
                             !.expanded = @ + 1]
    IN  IF current.q = st.goal.q /\ current.r = st.goal.r
        THEN [popped EXCEPT
                !.pc = "done", !.ret = "path",
                !.path = ShiftStart(ReconstructPath(st.cameFrom,
                                                    Hex(st.goal.q, st.goal.r)))]
        ELSE VisitNeighbors([popped EXCEPT !.closedSet = @ \cup {currentKey}],
                            current, getNeighbors(current.q, current.r))

\* the exit of the while loop: return null (line 248)
FindPathExhausted(st) == [st EXCEPT !.pc = "done", !.ret = "null"]

RECURSIVE FindPathRun(_)
FindPathRun(st) ==
    IF st.pc = "done" THEN st
    ELSE IF st.openSet = <<>> THEN FindPathRun(FindPathExhausted(st))
    ELSE FindPathRun(FindPathIteration(st))

\* findPath(startQ, startR, endQ, endR, obstacles) as a function
findPath(start, goal, obstacles) ==
    LET st == FindPathRun(FindPathEnter(start, goal, obstacles))
    IN  [ret |-> st.ret, path |-> st.path]

(***************************************************************************)
(* hasLineOfSight and getHexLine.  A fractional cube coordinate is the     *)
(* rational n/den, given by its numerator; den > 0 is shared by q, r, s.   *)
(***************************************************************************)
\* mutant: Math.floor in the place of Math.round
MathRoundDown(n, den) == n \div den

\* Math.round(n/den): the nearest integer, a tie going up
MathRound(n, den) == (2 * n + den) \div (2 * den)

\* mutant: q and r rounded independently of each other and of s
roundCubeIndependent(qn, rn, sn, den) ==
    Hex(MathRound(qn, den), MathRound(rn, den))

\* roundCube(q, r, s) for q = qn/den, r = rn/den, s = sn/den (lines 310-327);
\* the differences are compared scaled by den
roundCube(qn, rn, sn, den) ==
    LET rq == MathRound(qn, den)
        rr == MathRound(rn, den)
        rs == MathRound(sn, den)
        qDiff == Abs(rq * den - qn)
        rDiff == Abs(rr * den - rn)
        sDiff == Abs(rs * den - sn)
    IN  IF qDiff > rDiff /\ qDiff > sDiff THEN Hex(-rr - rs, rr)
        ELSE IF rDiff > sDiff THEN Hex(rq, -rq - rs)
        ELSE Hex(rq, rr)

\* getHexLine: sample i of N lies at t = i/N; results[i] is element i + 1
getHexLine(q1, r1, q2, r2) ==
    LET N == getDistance(q1, r1, q2, r2)
        s1 == -q1 - r1
        s2 == -q2 - r2
    IN  IF N = 0 THEN << Hex(q1, r1) >>
        ELSE [ k \in 1..(N + 1) |->
                 roundCube(q1 * N + (q2 - q1) * (k - 1),
                           r1 * N + (r2 - r1) * (k - 1),
                           s1 * N + (s2 - s1) * (k - 1), N) ]

\* mutant: the loop starts at index 0, so the start hex is tested too
hasLineOfSightFromStart(q1, r1, q2, r2, blockers) ==
    IF q1 = q2 /\ r1 = r2 THEN TRUE
    ELSE LET lineHexes == getHexLine(q1, r1, q2, r2)
         IN  \A k \in 1..(Len(lineHexes) - 1) :
                ~\E b \in blockers : b.q = lineHexes[k].q /\ b.r = lineHexes[k].r

\* mutant: the loop runs to the last index, so the end hex is tested too
hasLineOfSightToEnd(q1, r1, q2, r2, blockers) ==
    IF q1 = q2 /\ r1 = r2 THEN TRUE
    ELSE LET lineHexes == getHexLine(q1, r1, q2, r2)
         IN  \A k \in 2..Len(lineHexes) :
                ~\E b \in blockers : b.q = lineHexes[k].q /\ b.r = lineHexes[k].r

\* hasLineOfSight: "for (i = 1; i < lineHexes.length - 1; i++)" visits the
\* elements 2 .. Len - 1 of the 1-based sequence (lines 261-276)
hasLineOfSight(q1, r1, q2, r2, blockers) ==
    IF q1 = q2 /\ r1 = r2 THEN TRUE
    ELSE LET lineHexes == getHexLine(q1, r1, q2, r2)
         IN  \A k \in 2..(Len(lineHexes) - 1) :
                ~\E b \in blockers : b.q = lineHexes[k].q /\ b.r = lineHexes[k].r

(***************************************************************************)
(* The calls of findPath that are explored: every start and goal on the    *)
(* grid or on the ring just outside it, every obstacle list of at most     *)
(* MaxObstacles valid hexes (the start's own hex may be among them).       *)
(***************************************************************************)
HexSet == { Hex(hexes[i].q, hexes[i].r) : i \in DOMAIN hexes }

\* every coordinate within the given radius of the origin
Region(radius) ==
    { h \in { Hex(q, r) : q \in -radius..radius, r \in -radius..radius } :
        Abs(h.q + h.r) <= radius }

RECURSIVE SubsetsUpTo(_, _)
\* the subsets of S of at most k elements
SubsetsUpTo(S, k) ==
    IF k = 0 THEN {{}}
    ELSE LET smaller == SubsetsUpTo(S, k - 1)
         IN  smaller \cup { T \cup {x} : T \in smaller, x \in S }

LosIdle == [pc |-> "idle", a |-> Hex(0, 0), b |-> Hex(0, 0), blockers |-> {},
            result |-> TRUE]

FpIdle == [pc |-> "idle"]

\* no utility call in progress
CallIdle == [pc |-> "idle"]

\* null in the place of a path (currentPath, or the result of findPath)
NoPath == [ret |-> "null", path |-> <<>>]

\* no tween of the player's robot is running.  A running one is the lunge
\* of attackEnemy at the enemy of index target, or the step of
\* moveToNextHex(path, index) onto path[index] (index counted from 1)
NoTween == [kind |-> "none", target |-> 0, path |-> <<>>, index |-> 0]

\* the scene as init() leaves it, before create() populates the battle;
\* panel is the result panel endBattle puts up ("none" before it does),
\* hoveredHex is a list of no hex (null) or one, and commands is history:
\* the number of clicks and key presses the scene has acted on
SceneIdle ==
    [playerPos |-> Hex(0, 0), playerHP |-> playerMaxHP,
     actionPoints |-> maxActionPoints, isMoving |-> FALSE, obstacles |-> {},
     currentPhase |-> "player", isProcessingTurn |-> FALSE,
     battleOver |-> FALSE, panel |-> "none",
     hoveredHex |-> <<>>, currentPath |-> NoPath, tween |-> NoTween,
     commands |-> 0]

\* no enemy phase in progress
TurnIdle ==
    [pc |-> "idle", index |-> 0, dist |-> 0, hasLOS |-> FALSE,
     resume |-> "idle", actor |-> 0, origin |-> Hex(0, 0), log |-> <<>>]

InitFindPath ==
    /\ hexes = generateHexGrid(PathGridRadius)
    /\ \E start \in Region(PathGridRadius + 1), goal \in Region(PathGridRadius + 1) :
         \E obstacles \in SubsetsUpTo(Region(PathGridRadius), MaxObstacles) :
            /\ fp = FindPathEnter(start, goal, obstacles)
            /\ fpOrder = << hexKey(start.q, start.r) >>
    /\ call = CallIdle
    /\ los = LosIdle
    /\ scene = SceneIdle
    /\ enemies = <<>>
    /\ turn = TurnIdle

\* the keys of the entries an iteration pushed behind the ones it kept
Pushed(before, after) ==
    [ i \in 1..(Len(after.openSet) - (Len(before.openSet) - 1)) |->
        LET e == after.openSet[Len(before.openSet) - 1 + i]
        IN  hexKey(e.q, e.r) ]

FindPathStep ==
    /\ fp.pc = "loop"
    /\ fp.openSet # <<>>
    /\ fp' = FindPathIteration(fp)
    /\ fpOrder' = fpOrder \o Pushed(fp, fp')
    /\ UNCHANGED <<hexes, call, los, scene, enemies, turn>>

FindPathReturnNull ==
    /\ fp.pc = "loop"
    /\ fp.openSet = <<>>
    /\ fp' = FindPathExhausted(fp)
    /\ UNCHANGED <<hexes, call, fpOrder, los, scene, enemies, turn>>

NextFindPath == FindPathStep \/ FindPathReturnNull

SpecFindPath == InitFindPath /\ [][NextFindPath]_vars

(***************************************************************************)
(* Reference notions for the findPath claims, defined on the grid as a     *)
(* graph and not on the search: a walk leaves a coordinate for a valid hex *)
(* at hex distance 1 that is not an obstacle.  The start is never tested.  *)
(***************************************************************************)
Adjacent(h) == { n \in HexSet : getDistance(h.q, h.r, n.q, n.r) = 1 }

FreeSteps(frontier, obstacles) ==
    UNION { Adjacent(h) : h \in frontier } \ obstacles

RECURSIVE Flood(_, _, _)
\* every coordinate some walk from the frontier reaches
Flood(frontier, seen, obstacles) ==
    LET next == FreeSteps(frontier, obstacles) \ seen
    IN  IF next = {} THEN seen ELSE Flood(next, seen \cup next, obstacles)

WalkExists(start, goal, obstacles) == goal \in Flood({start}, {start}, obstacles)

RECURSIVE WalkLength(_, _, _, _, _)
\* the least number of steps of a walk to the goal, when one exists
WalkLength(frontier, seen, goal, obstacles, k) ==
    IF goal \in frontier THEN k
    ELSE LET next == FreeSteps(frontier, obstacles) \ seen
         IN  WalkLength(next, seen \cup next, goal, obstacles, k + 1)

ShortestWalk(start, goal, obstacles) ==
    WalkLength({start}, {start}, goal, obstacles, 0)

FpDone == fp.pc = "done"

FpValidEnds ==
    isValidHex(fp.start.q, fp.start.r) /\ isValidHex(fp.goal.q, fp.goal.r)

FpDist == getDistance(fp.start.q, fp.start.r, fp.goal.q, fp.goal.r)

SeqElems(seq) == { seq[i] : i \in DOMAIN seq }

\* C1: for valid start and goal with the goal reachable, findPath returns a
\* path, and its length is the least number of steps of any obstacle-avoiding
\* walk from start to goal on the grid.
C1_ShortestPath ==
    (FpDone /\ FpValidEnds /\ WalkExists(fp.start, fp.goal, fp.obstacles))
        => /\ fp.ret = "path"
           /\ Len(fp.path) = ShortestWalk(fp.start, fp.goal, fp.obstacles)

\* a call whose shortest path had to go round obstacles
C1_Witness ==
    /\ FpDone /\ FpValidEnds /\ fp.ret = "path"
    /\ Len(fp.path) >= FpDist + 2

\* C2: a returned path is well formed: the start is not in it, it ends at the
\* goal, it begins at a neighbour of the start, consecutive elements are at hex
\* distance 1, every element is a valid hex outside the obstacle set, and no
\* coordinate repeats.
C2_WellFormedPath ==
    (FpDone /\ fp.ret = "path") =>
        LET path == fp.path
        IN  /\ fp.start \notin SeqElems(path)
            /\ path = <<>> => fp.start = fp.goal
            /\ path # <<>> =>
                 /\ path[Len(path)] = fp.goal
                 /\ path[1] \in SeqElems(getNeighbors(fp.start.q, fp.start.r))
            /\ \A i \in 1..(Len(path) - 1) :
                 getDistance(path[i].q, path[i].r, path[i+1].q, path[i+1].r) = 1
            /\ \A i \in DOMAIN path :
                 /\ isValidHex(path[i].q, path[i].r)
                 /\ path[i] \notin fp.obstacles
            /\ \A i, j \in DOMAIN path : i # j => path[i] # path[j]

\* a returned path of three steps or more past obstacles
C2_Witness ==
    FpDone /\ fp.ret = "path" /\ Len(fp.path) >= 3 /\ fp.obstacles # {}

GoalEnclosed ==
    /\ fp.start # fp.goal
    /\ SeqElems(getNeighbors(fp.goal.q, fp.goal.r)) \subseteq fp.obstacles

StartNextToGoal == FpDist = 1

\* C3 as stated, for a valid start and goal: findPath returns null whenever
\* the goal differs from the start and every valid neighbour of the goal is an
\* obstacle, and it returns null exactly when no obstacle-avoiding walk from
\* start to goal exists, after exploring finitely many coordinates.
C3_Original ==
    (FpDone /\ FpValidEnds) =>
        /\ GoalEnclosed => fp.ret = "null"
        /\ fp.ret = "null" <=> ~WalkExists(fp.start, fp.goal, fp.obstacles)
        /\ fp.expanded <= Len(hexes) + 1

\* C3 amended: findPath returns null when the goal differs from the start,
\* the start is not adjacent to the goal, and every valid neighbour of the
\* goal is an obstacle; it returns null exactly when no obstacle-avoiding walk
\* from start to goal exists (the start itself is never tested against the
\* obstacles), after at most one expansion per grid hex plus one for the start.
C3_EnclosedGoal ==
    FpDone =>
        /\ (GoalEnclosed /\ ~StartNextToGoal) => fp.ret = "null"
        /\ fp.ret = "null" <=> ~WalkExists(fp.start, fp.goal, fp.obstacles)
        /\ fp.expanded <= Len(hexes) + 1

\* a valid goal, itself free, walled in on all sides, searched from elsewhere
C3_Witness ==
    /\ FpDone /\ FpValidEnds /\ GoalEnclosed /\ ~StartNextToGoal
    /\ fp.goal \notin fp.obstacles
    /\ fp.ret = "null" /\ fp.expanded >= 2

\* C4: with no obstacles, findPath between two valid hexes at hex distance d
\* returns a path of exactly d steps.
C4_EmptyGridDistance ==
    (FpDone /\ FpValidEnds /\ fp.obstacles = {})
        => fp.ret = "path" /\ Len(fp.path) = FpDist

\* two valid hexes two apart on the empty grid
C4_Witness ==
    /\ FpDone /\ FpValidEnds /\ fp.obstacles = {}
    /\ FpDist = 2 /\ Len(fp.path) = 2

\* C5: with start equal to goal findPath returns the empty sequence, not
\* null, whatever the obstacles.
C5_StartIsGoal ==
    (FpDone /\ fp.start = fp.goal) => fp.ret = "path" /\ fp.path = <<>>

\* start equal to goal with that very hex among the obstacles
C5_Witness ==
    /\ FpDone /\ fp.start = fp.goal /\ fp.start \in fp.obstacles
    /\ fp.ret = "path" /\ fp.path = <<>>

\* C6 as stated: findPath returns null whenever the start or the goal is not
\* a valid grid coordinate.
C6_Original ==
    (FpDone /\ ~FpValidEnds) => fp.ret = "null"

\* C7: listing the start among the obstacles never changes the result.
C7_StartAlwaysFree ==
    FpDone =>
        /\ findPath(fp.start, fp.goal, fp.obstacles \cup {fp.start})
              = [ret |-> fp.ret, path |-> fp.path]
        /\ findPath(fp.start, fp.goal, fp.obstacles \ {fp.start})
              = [ret |-> fp.ret, path |-> fp.path]

\* a call with the start listed as an obstacle that found a path
C7_Witness ==
    /\ FpDone /\ fp.start \in fp.obstacles
    /\ fp.ret = "path" /\ Len(fp.path) >= 2

OpenKeys(st) == { hexKey(st.openSet[i].q, st.openSet[i].r) : i \in DOMAIN st.openSet }

\* the entries of openSet no other entry has a lower f than
LowestF(st) ==
    { i \in DOMAIN st.openSet :
        \A j \in DOMAIN st.openSet : ~JsLess(st.openSet[j].f, st.openSet[i].f) }

PushIndex(key) == CHOOSE i \in DOMAIN fpOrder : fpOrder[i] = key

\* the lowest-f entry that was pushed first
FirstPushedLowest(st) ==
    CHOOSE i \in LowestF(st) :
        \A j \in LowestF(st) :
            PushIndex(hexKey(st.openSet[i].q, st.openSet[i].r))
                <= PushIndex(hexKey(st.openSet[j].q, st.openSet[j].r))

\* C8: the tie-break is stable: the node an iteration takes from openSet is,
\* among the entries sharing the lowest f, the one pushed earliest.
C8_StableTieBreak ==
    [][ FindPathStep =>
          LET i == FirstPushedLowest(fp)
          IN  OpenKeys(fp) \ OpenKeys(fp')
                 = { hexKey(fp.openSet[i].q, fp.openSet[i].r) } ]_vars

\* an iteration was taken with three entries tied for the lowest f
C8_Witness ==
    /\ fp.expanded >= 3
    /\ Cardinality(LowestF(fp)) >= 3

(***************************************************************************)
(* The calls of hasLineOfSight that are explored: both ends anywhere in    *)
(* the region of radius LosRadius, at most MaxBlockers blockers in it.     *)
(* los.pc is "call" before the call and "done" after its return.           *)
(***************************************************************************)
InitLineOfSight ==
    /\ hexes = generateHexGrid(LosRadius)
    /\ fp = FpIdle
    /\ fpOrder = <<>>
    /\ call = CallIdle
    /\ scene = SceneIdle
    /\ enemies = <<>>
    /\ turn = TurnIdle
    /\ \E a \in Region(LosRadius), b \in Region(LosRadius) :
         los = [LosIdle EXCEPT !.pc = "call", !.a = a, !.b = b]

\* the caller hands over its blocker list and the call runs to its return
HasLineOfSightCall ==
    /\ los.pc = "call"
    /\ \E blockers \in SubsetsUpTo(Region(LosRadius), MaxBlockers) :
         los' = [los EXCEPT
                   !.pc = "done", !.blockers = blockers,
                   !.result = hasLineOfSight(los.a.q, los.a.r, los.b.q, los.b.r,
                                             blockers)]
    /\ UNCHANGED <<hexes, call, fp, fpOrder, scene, enemies, turn>>

NextLineOfSight == HasLineOfSightCall

SpecLineOfSight == InitLineOfSight /\ [][NextLineOfSight]_vars

LosDone == los.pc = "done"

LosDist == getDistance(los.a.q, los.a.r, los.b.q, los.b.r)

\* the interior samples: sample i of the line for 0 < i < N
InteriorSamples(a, b) ==
    LET N == getDistance(a.q, a.r, b.q, b.r)
    IN  { roundCube(a.q * N + (b.q - a.q) * i,
                    a.r * N + (b.r - a.r) * i,
                    (-a.q - a.r) * N + ((-b.q - b.r) - (-a.q - a.r)) * i, N)
            : i \in 1..(N - 1) }

\* C9: for distinct a and b, hasLineOfSight is false exactly when a blocker
\* equals an interior sample of the rounded line from a to b; it is true for
\* an empty blocker set and when a = b.
C9_BlockedByInteriorSample ==
    LosDone =>
        /\ los.a # los.b =>
             (los.result = FALSE
                <=> InteriorSamples(los.a, los.b) \cap los.blockers # {})
        /\ los.blockers = {} => los.result = TRUE
        /\ los.a = los.b => los.result = TRUE

\* a line of three steps or more cut by a blocker
C9_Witness ==
    LosDone /\ LosDist >= 3 /\ los.result = FALSE

\* C10: blockers at the two endpoints never matter: the result with the
\* endpoints added to the blockers is the same, and no interior sample of the
\* line is one of the endpoints.
C10_EndpointsNeverBlock ==
    LosDone =>
        /\ hasLineOfSight(los.a.q, los.a.r, los.b.q, los.b.r,
                          los.blockers \cup {los.a, los.b}) = los.result
        /\ los.a # los.b =>
             InteriorSamples(los.a, los.b) \cap {los.a, los.b} = {}

\* a blocker on an endpoint of a line of two steps or more, sight kept
C10_Witness ==
    /\ LosDone /\ LosDist >= 2
    /\ los.blockers \cap {los.a, los.b} # {}
    /\ los.result = TRUE

(***************************************************************************)
(* Enemy (src/src/entities/Enemy.js) and the enemy type table              *)
(* (src/unnamed/part_001).  An enemy is a record of the fields the turn    *)
(* logic reads; the enemies of a battle are the sequence scene.enemies.    *)
(***************************************************************************)
\* bounds of the battles
\* radius of the grid the battles are fought on
BattleRadius == 2
\* largest number of walls on the battle grid
MaxWalls == 1
\* largest number of traps on the battle grid
MaxTraps == 1
\* largest number of enemies in a battle
MaxEnemies == 2

\* ENEMY_TYPES: the fields of each type that Enemy's constructor copies
ENEMY_TYPES ==
    [scrapper |-> [hp |-> 7, damage |-> 2, range |-> 1, ap |-> 3,
                   maxAttacksPerTurn |-> 2, aiType |-> "melee",
                   preferredDistance |-> 1],
     brawler  |-> [hp |-> 6, damage |-> 2, range |-> 1, ap |-> 3,
                   maxAttacksPerTurn |-> 2, aiType |-> "melee",
                   preferredDistance |-> 1],
     turret   |-> [hp |-> 5, damage |-> 1, range |-> 3, ap |-> 3,
                   maxAttacksPerTurn |-> 2, aiType |-> "ranged",
                   preferredDistance |-> 3],
     sniper   |-> [hp |-> 5, damage |-> 1, range |-> 3, ap |-> 3,
                   maxAttacksPerTurn |-> 2, aiType |-> "ranged",
                   preferredDistance |-> 3]]

getEnemyData(typeKey) == ENEMY_TYPES[typeKey]

\* new Enemy(scene, typeKey, q, r)
Enemy(typeKey, q, r) ==
    LET data == getEnemyData(typeKey)
    IN  [typeKey |-> typeKey, pos |-> Hex(q, r),
         hp |-> data.hp, maxHP |-> data.hp, damage |-> data.damage,
         range |-> data.range, ap |-> data.ap, maxAP |-> data.ap,
         maxAttacksPerTurn |-> data.maxAttacksPerTurn, attacksThisTurn |-> 0,
         aiType |-> data.aiType, preferredDistance |-> data.preferredDistance,
         isAlive |-> TRUE]

\* die(), as takeDamage calls it when hp has reached 0
die(e) == [e EXCEPT !.isAlive = FALSE]

takeDamage(e, amount) ==
    LET hurt == [e EXCEPT !.hp = Max(0, e.hp - amount)]
    IN  IF hurt.hp <= 0 THEN die(hurt) ELSE hurt

\* mutant: the attacks of the turn before stay counted
resetTurnKeepsAttacks(e) == [e EXCEPT !.ap = e.maxAP]

resetTurn(e) == [e EXCEPT !.ap = e.maxAP, !.attacksThisTurn = 0]

canAttackAlways(e) == TRUE

canAttack(e) == e.attacksThisTurn < e.maxAttacksPerTurn /\ e.ap >= 1

moveToUnpaid(e, q, r) == [e EXCEPT !.pos = Hex(q, r)]

\* mutant: a move costs two action points
moveToTwice(e, q, r) == [e EXCEPT !.pos = Hex(q, r), !.ap = e.ap - 2]

\* moveTo(q, r), with the tween's onComplete: the enemy stands on the hex
\* and has paid one action point
moveTo(e, q, r) == [e EXCEPT !.pos = Hex(q, r), !.ap = e.ap - 1]

attackPlayerBeginUnpaid(e) ==
    [e EXCEPT !.attacksThisTurn = e.attacksThisTurn + 1]

\* attackPlayer() up to the start of its tween
attackPlayerBegin(e) ==
    [e EXCEPT !.attacksThisTurn = e.attacksThisTurn + 1, !.ap = e.ap - 1]

getDistanceToPlayer(sc, e) ==
    getDistance(e.pos.q, e.pos.r, sc.playerPos.q, sc.playerPos.r)

canReachPlayerWithAttack(sc, e) == getDistanceToPlayer(sc, e) <= e.range

Walls(sc) == { o \in sc.obstacles : o.type = "wall" }

hasLineOfSightToPlayerThroughWalls(sc, e) == TRUE

hasLineOfSightToPlayerNever(sc, e) == FALSE

hasLineOfSightToPlayer(sc, e) ==
    hasLineOfSight(e.pos.q, e.pos.r, sc.playerPos.q, sc.playerPos.r, Walls(sc))

\* mutant: the dead enemies are obstacles too
getObstaclesWithDead(sc, es, i) ==
    sc.obstacles
      \cup { [q |-> es[j].pos.q, r |-> es[j].pos.r, type |-> "enemy"] :
               j \in { k \in DOMAIN es : k # i } }
      \cup { [q |-> sc.playerPos.q, r |-> sc.playerPos.r, type |-> "player"] }

\* getObstacles() of the enemy at index i: walls and traps, the other live
\* enemies, and the player
getObstacles(sc, es, i) ==
    sc.obstacles
      \cup { [q |-> es[j].pos.q, r |-> es[j].pos.r, type |-> "enemy"] :
               j \in { k \in DOMAIN es : k # i /\ es[k].isAlive } }
      \cup { [q |-> sc.playerPos.q, r |-> sc.playerPos.r, type |-> "player"] }

\* a decision of moveTowardPlayer or moveAwayFromPlayer: whether moveTo is
\* called, and with which hex
NoMove == [moved |-> FALSE, hex |-> Hex(0, 0)]

MoveOnto(h) == [moved |-> TRUE, hex |-> Hex(h.q, h.r)]

moveTowardPlayer(sc, es, i) ==
    LET pathObstacles == { o \in getObstacles(sc, es, i) : o.type # "player" }
        found == findPath(es[i].pos, sc.playerPos, pathObstacles)
    IN  IF found.ret = "path" /\ Len(found.path) > 1
        THEN LET nextHex == found.path[1]
                 occupied == \E j \in DOMAIN es :
                                /\ j # i
                                /\ es[j].isAlive
                                /\ es[j].pos.q = nextHex.q
                                /\ es[j].pos.r = nextHex.r
             IN  IF ~occupied THEN MoveOnto(nextHex) ELSE NoMove
        ELSE NoMove

RECURSIVE BestNeighborNotStrict(_, _, _, _, _)
BestNeighborNotStrict(sc, validNeighbors, k, bestDist, best) ==
    IF k > Len(validNeighbors) THEN best
    ELSE LET neighbor == validNeighbors[k]
             dist == getDistance(neighbor.q, neighbor.r,
                                 sc.playerPos.q, sc.playerPos.r)
         IN  IF dist >= bestDist
             THEN BestNeighborNotStrict(sc, validNeighbors, k + 1, dist,
                                        MoveOnto(neighbor))
             ELSE BestNeighborNotStrict(sc, validNeighbors, k + 1, bestDist,
                                        best)

RECURSIVE BestNeighbor(_, _, _, _, _)
\* the loop of moveAwayFromPlayer over validNeighbors[k..]: the neighbour
\* kept so far (best.moved says whether there is one) and its distance
BestNeighbor(sc, validNeighbors, k, bestDist, best) ==
    IF k > Len(validNeighbors) THEN best
    ELSE LET neighbor == validNeighbors[k]
             dist == getDistance(neighbor.q, neighbor.r,
                                 sc.playerPos.q, sc.playerPos.r)
         IN  IF dist > bestDist
             THEN BestNeighbor(sc, validNeighbors, k + 1, dist,
                               MoveOnto(neighbor))
             ELSE BestNeighbor(sc, validNeighbors, k + 1, bestDist, best)

\* mutant: the neighbours are not tested against the obstacles
moveAwayFromPlayerAnywhere(sc, es, i) ==
    LET neighbors == getNeighbors(es[i].pos.q, es[i].pos.r)
    IN  IF Len(neighbors) = 0 THEN NoMove
        ELSE BestNeighbor(sc, neighbors, 1,
                          getDistanceToPlayer(sc, es[i]), NoMove)

moveAwayFromPlayer(sc, es, i) ==
    LET neighbors == getNeighbors(es[i].pos.q, es[i].pos.r)
        obstacles == getObstacles(sc, es, i)
        Free(n) == /\ isValidHex(n.q, n.r)
                   /\ ~\E o \in obstacles : o.q = n.q /\ o.r = n.r
        validNeighbors == SelectSeq(neighbors, Free)
    IN  IF Len(validNeighbors) = 0 THEN NoMove
        ELSE BestNeighbor(sc, validNeighbors, 1,
                          getDistanceToPlayer(sc, es[i]), NoMove)

(***************************************************************************)
(* Turn management of the battle scene (src/unnamed/part_002).             *)
(***************************************************************************)
\* endBattle(victory): the result panel shows "victory" or "defeat"
endBattle(sc, victory) ==
    IF sc.battleOver THEN sc
    ELSE [sc EXCEPT !.battleOver = TRUE, !.currentPhase = "none",
                    !.panel = IF victory THEN "victory" ELSE "defeat"]

damagePlayerUnfloored(sc, amount) ==
    LET hurt == [sc EXCEPT !.playerHP = sc.playerHP - amount]
    IN  IF hurt.playerHP <= 0 THEN endBattle(hurt, FALSE) ELSE hurt

damagePlayer(sc, amount) ==
    LET hurt == [sc EXCEPT !.playerHP = Max(0, sc.playerHP - amount)]
    IN  IF hurt.playerHP <= 0 THEN endBattle(hurt, FALSE) ELSE hurt

\* mutant: one dead enemy is enough
checkWinConditionAnyDead(sc, es) ==
    IF \E j \in DOMAIN es : ~es[j].isAlive THEN endBattle(sc, TRUE) ELSE sc

checkWinCondition(sc, es) ==
    IF \A j \in DOMAIN es : ~es[j].isAlive THEN endBattle(sc, TRUE) ELSE sc

\* mutant: the action points are left as the player spent them
startPlayerPhaseTired(sc) == [sc EXCEPT !.currentPhase = "player"]

startPlayerPhase(sc) ==
    [sc EXCEPT !.currentPhase = "player", !.actionPoints = maxActionPoints]

\* the enemy whose turn the enemy phase is at
Actor == enemies[turn.index]

\* the history of the turn gains one event
Logged(t, event) == [t EXCEPT !.log = Append(t.log, event)]

\* the end-turn button: endPlayerTurn, and startEnemyPhase up to its banner
endPlayerTurn ==
    /\ scene.currentPhase = "player"
    /\ ~scene.isMoving
    /\ scene' = [scene EXCEPT !.hoveredHex = <<>>, !.currentPath = NoPath,
                              !.currentPhase = "enemy",
                              !.isProcessingTurn = TRUE]
    /\ turn' = [TurnIdle EXCEPT !.pc = "forEach", !.index = 1]
    /\ UNCHANGED <<hexes, call, fp, fpOrder, los, enemies>>

\* the loop of startEnemyPhase passes over a dead enemy, or over any enemy
\* once the battle is over
EnemyPhaseSkip ==
    /\ turn.pc = "forEach"
    /\ turn.index <= Len(enemies)
    /\ ~Actor.isAlive \/ scene.battleOver
    /\ turn' = [turn EXCEPT !.index = turn.index + 1]
    /\ UNCHANGED <<hexes, call, fp, fpOrder, los, scene, enemies>>

\* the locals dist and hasLOS of executeRangedTurn, read afresh
Sighted(t, sc, e) ==
    [t EXCEPT !.dist = getDistanceToPlayer(sc, e),
              !.hasLOS = hasLineOfSightToPlayer(sc, e)]

\* the loop of startEnemyPhase gives the next enemy its turn: resetTurn,
\* then executeTurn up to the first loop of the enemy's behaviour
EnemyPhaseTurn ==
    /\ turn.pc = "forEach"
    /\ turn.index <= Len(enemies)
    /\ ~(~Actor.isAlive \/ scene.battleOver)
    /\ LET e == resetTurn(Actor)
           begun == [turn EXCEPT !.actor = turn.index, !.origin = e.pos,
                                 !.log = <<>>]
       IN  /\ enemies' = [enemies EXCEPT ![turn.index] = e]
           /\ turn' = IF ~e.isAlive
                      THEN [begun EXCEPT !.pc = "delay"]
                      ELSE IF e.aiType = "melee"
                      THEN [begun EXCEPT !.pc = "melee"]
                      ELSE Sighted([begun EXCEPT !.pc = "approach"],
                                   scene, e)
    /\ UNCHANGED <<hexes, call, fp, fpOrder, los, scene>>

\* one pass of the loop of executeMeleeTurn, up to its await
ExecuteMeleeTurn ==
    /\ turn.pc = "melee"
    /\ LET e == Actor
           step == moveTowardPlayer(scene, enemies, turn.index)
       IN  IF e.ap > 0 /\ e.isAlive /\ ~scene.battleOver
           THEN IF getDistanceToPlayer(scene, e) = 1 /\ canAttack(e)
                THEN /\ enemies' = [enemies EXCEPT
                                      ![turn.index] = attackPlayerBegin(e)]
                     /\ turn' = Logged([turn EXCEPT !.pc = "strike",
                                                    !.resume = "melee"],
                                       "attack")
                ELSE IF e.ap >= 1
                THEN IF step.moved
                     THEN /\ enemies' = [enemies EXCEPT ![turn.index] =
                                           moveTo(e, step.hex.q, step.hex.r)]
                          /\ turn' = Logged(turn, "toward")
                     ELSE /\ enemies' = enemies
                          /\ turn' = Logged([turn EXCEPT !.pc = "delay"],
                                            "towardFailed")
                ELSE /\ enemies' = enemies
                     /\ turn' = [turn EXCEPT !.pc = "delay"]
           ELSE /\ enemies' = enemies
                /\ turn' = [turn EXCEPT !.pc = "delay"]
    /\ UNCHANGED <<hexes, call, fp, fpOrder, los, scene>>

\* phase 1 of executeRangedTurn: one pass of the approach loop
RangedApproach ==
    /\ turn.pc = "approach"
    /\ LET e == Actor
           step == moveTowardPlayer(scene, enemies, turn.index)
       IN  IF /\ turn.dist > e.range \/ ~turn.hasLOS
              /\ e.ap >= 1
              /\ e.isAlive
              /\ ~scene.battleOver
           THEN IF step.moved
                THEN LET moved == moveTo(e, step.hex.q, step.hex.r)
                     IN  /\ enemies' = [enemies EXCEPT ![turn.index] = moved]
                         /\ turn' = Sighted(Logged(turn, "toward"),
                                            scene, moved)
                ELSE /\ enemies' = enemies
                     /\ turn' = Logged([turn EXCEPT !.pc = "attack"],
                                       "towardFailed")
           ELSE /\ enemies' = enemies
                /\ turn' = [turn EXCEPT !.pc = "attack"]
    /\ UNCHANGED <<hexes, call, fp, fpOrder, los, scene>>

\* where executeRangedTurn goes on when the attack of phase 2 has resolved
AfterRangedAttackAgain == "attack"

AfterRangedAttack == "retreat"

\* phase 2 of executeRangedTurn: the single attack
RangedAttack ==
    /\ turn.pc = "attack"
    /\ LET e == Actor
       IN  IF /\ canAttack(e)
              /\ turn.dist <= e.range
              /\ turn.hasLOS
              /\ e.isAlive
              /\ ~scene.battleOver
           THEN /\ enemies' = [enemies EXCEPT
                                 ![turn.index] = attackPlayerBegin(e)]
                /\ turn' = Logged([turn EXCEPT !.pc = "strike",
                                               !.resume = AfterRangedAttack],
                                  "attack")
           ELSE /\ enemies' = enemies
                /\ turn' = [turn EXCEPT !.pc = "retreat"]
    /\ UNCHANGED <<hexes, call, fp, fpOrder, los, scene>>

\* where executeRangedTurn goes on when the retreat loop of phase 3 is left
AfterRetreatApproach == "approach"

AfterRetreat == "delay"

\* phase 3 of executeRangedTurn: one pass of the retreat loop
RangedRetreat ==
    /\ turn.pc = "retreat"
    /\ LET e == Actor
           step == moveAwayFromPlayer(scene, enemies, turn.index)
       IN  IF /\ turn.dist < e.preferredDistance
              /\ e.ap >= 1
              /\ e.isAlive
              /\ ~scene.battleOver
           THEN IF step.moved
                THEN LET moved == moveTo(e, step.hex.q, step.hex.r)
                     IN  /\ enemies' = [enemies EXCEPT ![turn.index] = moved]
                         /\ turn' = [Logged(turn, "away") EXCEPT
                                       !.dist = getDistanceToPlayer(scene,
                                                                    moved)]
                ELSE /\ enemies' = enemies
                     /\ turn' = Logged([turn EXCEPT !.pc = AfterRetreat],
                                       "awayFailed")
           ELSE /\ enemies' = enemies
                /\ turn' = [turn EXCEPT !.pc = AfterRetreat]
    /\ UNCHANGED <<hexes, call, fp, fpOrder, los, scene>>

\* the tween of attackPlayer completes: the player takes the damage, and
\* the turn goes on where attackPlayer was awaited
AttackPlayerComplete ==
    /\ turn.pc = "strike"
    /\ scene' = damagePlayer(scene, Actor.damage)
    /\ turn' = [turn EXCEPT !.pc = turn.resume,
                            !.dist = getDistanceToPlayer(scene, Actor)]
    /\ UNCHANGED <<hexes, call, fp, fpOrder, los, enemies>>

\* mutant: the loop of startEnemyPhase stays at the enemy
EnemyTurnReturnStays ==
    /\ turn.pc = "delay"
    /\ turn' = [turn EXCEPT !.pc = "forEach"]
    /\ UNCHANGED <<hexes, call, fp, fpOrder, los, scene, enemies>>

\* executeTurn has returned; after its delay the loop of startEnemyPhase
\* goes on to the next enemy
EnemyTurnReturn ==
    /\ turn.pc = "delay"
    /\ turn' = [turn EXCEPT !.pc = "forEach", !.index = turn.index + 1]
    /\ UNCHANGED <<hexes, call, fp, fpOrder, los, scene, enemies>>

EnemyPhaseEndRestarts ==
    /\ turn.pc = "forEach"
    /\ turn.index > Len(enemies)
    /\ scene' = startPlayerPhase([scene EXCEPT !.isProcessingTurn = FALSE])
    /\ turn' = [turn EXCEPT !.pc = "idle"]
    /\ UNCHANGED <<hexes, call, fp, fpOrder, los, enemies>>

\* the loop of startEnemyPhase has passed the last enemy
EnemyPhaseEnd ==
    /\ turn.pc = "forEach"
    /\ turn.index > Len(enemies)
    /\ LET processed == [scene EXCEPT !.isProcessingTurn = FALSE]
           checked == IF ~processed.battleOver
                      THEN checkWinCondition(processed, enemies)
                      ELSE processed
       IN  scene' = IF ~checked.battleOver THEN startPlayerPhase(checked)
                    ELSE checked
    /\ turn' = [turn EXCEPT !.pc = "idle"]
    /\ UNCHANGED <<hexes, call, fp, fpOrder, los, enemies>>

\* the steps of a battle with a single enemy, all of whose turns are taken
NextDuel ==
    \/ endPlayerTurn
    \/ EnemyPhaseTurn
    \/ ExecuteMeleeTurn
    \/ RangedApproach
    \/ RangedAttack
    \/ RangedRetreat
    \/ AttackPlayerComplete
    \/ EnemyTurnReturn
    \/ EnemyPhaseEnd

NextBattle == EnemyPhaseSkip \/ NextDuel


(***************************************************************************)
(* The player's input handlers (src/unnamed/part_002).                     *)
(***************************************************************************)
\* how far from the player the pointer is taken
PointerReach == 1

\* the hexes a pointer event can be at: the hexes of the grid up to
\* PointerReach from the player, and a coordinate off the grid
Pointers ==
    { h \in HexSet : getDistance(h.q, h.r, scene.playerPos.q,
                                 scene.playerPos.r) <= PointerReach }
      \cup { Hex(gridRadius + 1, 0) }

\* the obstacle, if any, on a hex
ObstacleTypeAt(sc, h) ==
    IF \E o \in sc.obstacles : o.q = h.q /\ o.r = h.r
    THEN (CHOOSE o \in sc.obstacles : o.q = h.q /\ o.r = h.r).type
    ELSE "none"

\* the indices of the live enemies on a hex; enemies.find takes the first
EnemiesOn(es, h) ==
    { j \in DOMAIN es : es[j].isAlive /\ es[j].pos.q = h.q /\ es[j].pos.r = h.r }

FirstOf(indices) == CHOOSE j \in indices : \A k \in indices : j <= k

HoverIs(sc, h) == sc.hoveredHex = << h >>

\* mutant: traps are left out of the obstacle list
PlayerPathObstaclesWithoutTraps(sc, es, h) ==
    { o \in sc.obstacles : o.type = "wall" }
      \cup { [q |-> es[j].pos.q, r |-> es[j].pos.r, type |-> "enemy"] :
               j \in { k \in DOMAIN es : es[k].isAlive } }

\* the obstacle list onPointerMove hands to findPath for the hex hovered:
\* the walls, the traps other than the hovered hex, the live enemies
PlayerPathObstacles(sc, es, h) ==
    { o \in sc.obstacles :
        \/ o.type = "wall"
        \/ o.type = "trap" /\ ~(o.q = h.q /\ o.r = h.r) }
      \cup { [q |-> es[j].pos.q, r |-> es[j].pos.r, type |-> "enemy"] :
               j \in { k \in DOMAIN es : es[k].isAlive } }

\* the scene after onPointerMove with the pointer over h, past its guard
onPointerMove(sc, es, h) ==
    LET cleared == IF sc.hoveredHex # <<>>
                   THEN [sc EXCEPT !.hoveredHex = <<>>, !.currentPath = NoPath]
                   ELSE sc
    IN  IF isValidHex(h.q, h.r)
        THEN IF ObstacleTypeAt(sc, h) = "wall" THEN cleared
             ELSE IF EnemiesOn(es, h) # {}
             THEN IF ~HoverIs(sc, h)
                  THEN [sc EXCEPT !.hoveredHex = << h >>,
                                  !.currentPath = NoPath]
                  ELSE sc
             ELSE IF ~HoverIs(sc, h)
                  THEN LET found == findPath(sc.playerPos, h,
                                             PlayerPathObstacles(sc, es, h))
                       IN  [sc EXCEPT
                              !.hoveredHex = << h >>,
                              !.currentPath = IF found.ret = "path"
                                              THEN [ret |-> "path",
                                                    path |-> found.path]
                                              ELSE NoPath]
                  ELSE sc
        ELSE cleared

\* moveToNextHex(path, index), index counted from 1: the end of the
\* movement, or the step onto path[index] up to the start of its tween
moveToNextHex(sc, path, index) ==
    IF index > Len(path)
    THEN [sc EXCEPT !.isMoving = FALSE, !.tween = NoTween]
    ELSE [sc EXCEPT !.playerPos = Hex(path[index].q, path[index].r),
                    !.actionPoints = sc.actionPoints - 1,
                    !.tween = [kind |-> "step", target |-> 0,
                               path |-> path, index |-> index]]

moveAlongPath(sc) ==
    IF sc.currentPath.ret = "null" \/ Len(sc.currentPath.path) = 0 THEN sc
    ELSE moveToNextHex([sc EXCEPT !.isMoving = TRUE, !.currentPath = NoPath,
                                  !.hoveredHex = <<>>],
                       sc.currentPath.path, 1)

\* mutant: the test of the distance is missing
attackEnemyFromAfar(sc, es, j) ==
    IF sc.actionPoints < playerAttackCost THEN sc
    ELSE [sc EXCEPT !.isMoving = TRUE,
                    !.actionPoints = sc.actionPoints - playerAttackCost,
                    !.tween = [kind |-> "lunge", target |-> j,
                               path |-> <<>>, index |-> 0]]

\* attackEnemy(enemy) for the enemy of index j, up to the start of the tween
attackEnemy(sc, es, j) ==
    IF getDistance(sc.playerPos.q, sc.playerPos.r,
                   es[j].pos.q, es[j].pos.r) > 1 THEN sc
    ELSE IF sc.actionPoints < playerAttackCost THEN sc
    ELSE [sc EXCEPT !.isMoving = TRUE,
                    !.actionPoints = sc.actionPoints - playerAttackCost,
                    !.tween = [kind |-> "lunge", target |-> j,
                               path |-> <<>>, index |-> 0]]

\* mutant: a move is started whatever the action points left
onPointerDownUnpaid(sc, es, h) ==
    IF ~isValidHex(h.q, h.r) THEN sc
    ELSE IF ObstacleTypeAt(sc, h) = "wall" THEN sc
    ELSE IF EnemiesOn(es, h) # {}
    THEN attackEnemy(sc, es, FirstOf(EnemiesOn(es, h)))
    ELSE IF sc.currentPath.ret = "null" \/ Len(sc.currentPath.path) = 0
    THEN sc
    ELSE moveAlongPath(sc)

\* the scene after onPointerDown with the pointer on h, past its guard
onPointerDown(sc, es, h) ==
    IF ~isValidHex(h.q, h.r) THEN sc
    ELSE IF ObstacleTypeAt(sc, h) = "wall" THEN sc
    ELSE IF EnemiesOn(es, h) # {}
    THEN attackEnemy(sc, es, FirstOf(EnemiesOn(es, h)))
    ELSE IF sc.currentPath.ret = "null" \/ Len(sc.currentPath.path) = 0
    THEN sc
    ELSE IF sc.actionPoints < Len(sc.currentPath.path) THEN sc
    ELSE moveAlongPath(sc)

\* the clicks and key presses acted on in a battle that is explored
MaxCommands == 2

\* mutant: the handlers do not test isMoving
PlayerMayActWhileMoving ==
    ~(scene.currentPhase # "player" \/ scene.battleOver)

\* the guard shared by the pointer handlers and the keys
PlayerMayAct ==
    ~(scene.isMoving \/ scene.currentPhase # "player" \/ scene.battleOver)

\* a click or key press that changed the scene is counted
Commanded(sc) ==
    IF sc = scene THEN sc ELSE [sc EXCEPT !.commands = scene.commands + 1]

\* the pointer moves over a hex
PointerMove ==
    /\ PlayerMayAct
    /\ \E h \in Pointers : scene' = onPointerMove(scene, enemies, h)
    /\ UNCHANGED <<hexes, call, fp, fpOrder, los, enemies, turn>>

\* a click on a hex
PointerDown ==
    /\ PlayerMayAct
    /\ scene.commands < MaxCommands
    /\ \E h \in Pointers : scene' = Commanded(onPointerDown(scene, enemies, h))
    /\ UNCHANGED <<hexes, call, fp, fpOrder, los, enemies, turn>>

\* the tween of moveToNextHex completes: a trap on the hex entered hurts
\* the player, and the movement goes on with the next hex of the path
PlayerStepComplete ==
    /\ scene.tween.kind = "step"
    /\ LET nextHex == scene.tween.path[scene.tween.index]
           sprung == IF ObstacleTypeAt(scene, nextHex) = "trap"
                     THEN damagePlayer(scene, 1)
                     ELSE scene
       IN  scene' = moveToNextHex(sprung, scene.tween.path,
                                  scene.tween.index + 1)
    /\ UNCHANGED <<hexes, call, fp, fpOrder, los, enemies, turn>>

\* the tween of attackEnemy completes: the enemy takes the damage and the
\* win condition is checked
PlayerAttackComplete ==
    /\ scene.tween.kind = "lunge"
    /\ enemies' = [enemies EXCEPT ![scene.tween.target] =
                      takeDamage(enemies[scene.tween.target], playerDamage)]
    /\ scene' = checkWinCondition([scene EXCEPT !.isMoving = FALSE,
                                                !.tween = NoTween],
                                  enemies')
    /\ UNCHANGED <<hexes, call, fp, fpOrder, los, turn>>

\* the space bar: the action points are reset
ResetActionPoints ==
    /\ PlayerMayAct
    /\ scene.commands < MaxCommands
    /\ scene' = Commanded([scene EXCEPT !.actionPoints = maxActionPoints])
    /\ UNCHANGED <<hexes, call, fp, fpOrder, los, enemies, turn>>

NextPlayer ==
    \/ PointerMove
    \/ PointerDown
    \/ PlayerStepComplete
    \/ PlayerAttackComplete
    \/ ResetActionPoints
(***************************************************************************)
(* The battles checked: a battle state at the start of a player phase,     *)
(* with one enemy among obstacles or with several enemies on open ground.  *)
(***************************************************************************)
\* the hit points the player has left when the battles start
StartHP == 5

\* the type keys the enemies are drawn from: one melee and one ranged type
\* (brawler differs from scrapper in hp only, sniper from turret in nothing)
SpawnKeys == {"scrapper", "turret"}

\* the obstacles of the given type on up to most hexes of the set
Placed(spots, type, most) ==
    { { [q |-> h.q, r |-> h.r, type |-> type] : h \in chosen } :
        chosen \in SubsetsUpTo(spots, most) }

\* walls and traps on the grid: one obstacle a hex at most, no wall under
\* the player (the player may stand on a trap)
ObstacleLayouts(radius, playerPos, walls, traps) ==
    { w \cup t :
        w \in Placed(Region(radius) \ {playerPos}, "wall", walls),
        t \in Placed(Region(radius), "trap", traps) }
      \ { layout \in { w \cup t :
                         w \in Placed(Region(radius) \ {playerPos}, "wall",
                                      walls),
                         t \in Placed(Region(radius), "trap", traps) } :
            \E a \in layout, b \in layout :
                a # b /\ a.q = b.q /\ a.r = b.r }

\* n enemies on distinct hexes that hold no obstacle and not the player
LineUps(radius, playerPos, layout, n) ==
    LET free == { h \in Region(radius) :
                    /\ h # playerPos
                    /\ ~\E o \in layout : o.q = h.q /\ o.r = h.r }
        spots == { s \in [1..n -> free] :
                     \A j \in 1..n, k \in 1..n : s[j] = s[k] => j = k }
    IN  { [j \in 1..n |-> Enemy(keys[j], s[j].q, s[j].r)] :
            keys \in [1..n -> SpawnKeys], s \in spots }

\* a battle at the start of a player phase: the grid of the given radius,
\* the player on playerPos, n enemies, walls and traps up to the given numbers
BattleStart(radius, playerPos, n, walls, traps) ==
    /\ hexes = generateHexGrid(radius)
    /\ fp = FpIdle
    /\ fpOrder = <<>>
    /\ call = CallIdle
    /\ los = LosIdle
    /\ turn = TurnIdle
    /\ \E layout \in ObstacleLayouts(radius, playerPos, walls, traps) :
          /\ scene = [SceneIdle EXCEPT !.playerPos = playerPos,
                                       !.obstacles = layout,
                                       !.playerHP = StartHP]
          /\ enemies \in LineUps(radius, playerPos, layout, n)

\* the player on the centre of the battle grid, where init() puts it: one
\* enemy among obstacles, or several enemies on open ground
InitBattle ==
    \E n \in 1..MaxEnemies :
        BattleStart(BattleRadius, Hex(0, 0), n,
                    IF n = 1 THEN MaxWalls ELSE 0,
                    IF n = 1 THEN MaxTraps ELSE 0)

SpecBattle == InitBattle /\ [][NextBattle]_vars

\* the player has walked to a corner of the battle grid: one enemy among
\* obstacles, up to twice the radius away
InitOutpost ==
    BattleStart(BattleRadius, Hex(-BattleRadius, 0), 1, MaxWalls, MaxTraps)

SpecOutpost == InitOutpost /\ [][NextDuel]_vars

\* the arena of the game: the grid of radius gridRadius without obstacles,
\* the player on the centre, one enemy
InitArena == BattleStart(gridRadius, Hex(0, 0), 1, 0, 0)

SpecArena == InitArena /\ [][NextDuel]_vars


\* the steps of a battle: the player's input and the enemy phase
NextSkirmish == NextPlayer \/ NextBattle

\* the hexes in front of the player on the centre: one next to the player
\* and, on the grid of radius 2, two behind it next to each other
Front(radius) ==
    { h \in Region(radius) : h.q >= 1 /\ h.r \in {-1, 0} /\ h.q + h.r >= 1 }

\* the hit points of every enemy when a skirmish starts: an enemy that the
\* player's next attack defeats
WoundedHP == 1

\* a battle well under way, at the start of a player phase: the player on
\* the centre, a melee and a ranged enemy in front of it, each with
\* WoundedHP hit points left, and beside them nothing, a wall or a trap
InitSkirmish ==
    /\ hexes = generateHexGrid(BattleRadius)
    /\ fp = FpIdle
    /\ fpOrder = <<>>
    /\ call = CallIdle
    /\ los = LosIdle
    /\ turn = TurnIdle
    /\ \E layout \in Placed({ Hex(1, -1) }, "wall", MaxWalls)
                         \cup Placed({ Hex(1, -1) }, "trap", MaxTraps) :
          /\ scene = [SceneIdle EXCEPT !.obstacles = layout,
                                       !.playerHP = StartHP]
          /\ \E a \in Front(BattleRadius), b \in Front(BattleRadius) :
                /\ a # b
                /\ \E keys \in { <<"scrapper", "turret">>,
                                 <<"turret", "scrapper">> } :
                      enemies =
                        << [Enemy(keys[1], a.q, a.r) EXCEPT !.hp = WoundedHP],
                           [Enemy(keys[2], b.q, b.r) EXCEPT !.hp = WoundedHP] >>

SpecSkirmish == InitSkirmish /\ [][NextSkirmish]_vars
(***************************************************************************)
(* The enemy turns: what the history of a turn tells.                      *)
(***************************************************************************)
\* an enemy has begun a turn in this enemy phase; turn.log is its history
TurnTaken == turn.actor # 0

\* the enemy that took the latest turn
Taker == enemies[turn.actor]

\* the latest turn has ended: executeTurn has returned
TurnEnded == TurnTaken /\ turn.pc \in {"delay", "forEach", "idle"}

\* how often the event occurs in the history
Count(log, event) == Cardinality({ k \in DOMAIN log : log[k] = event })

Moves(log) == Count(log, "toward") + Count(log, "away")

Attacks(log) == Count(log, "attack")

\* C11: a ranged enemy performs at most one attack in any single turn,
\* whatever maxAttacksPerTurn allows and however many action points remain:
\* the history of a ranged enemy's turn holds at most one attack, and no
\* ranged enemy's attacksThisTurn ever exceeds 1.
C11_RangedAttacksOnce ==
    /\ (TurnTaken /\ Taker.aiType = "ranged") => Attacks(turn.log) <= 1
    /\ \A j \in DOMAIN enemies :
          enemies[j].aiType = "ranged" => enemies[j].attacksThisTurn <= 1

\* a ranged enemy's turn has ended after one attack although a second one
\* was permitted: canAttack holds, the player is in range and in sight, and
\* the battle goes on
C11_Witness ==
    /\ TurnEnded
    /\ turn.pc = "delay"
    /\ Taker.aiType = "ranged"
    /\ Attacks(turn.log) = 1
    /\ canAttack(Taker)
    /\ Taker.maxAttacksPerTurn > 1
    /\ canReachPlayerWithAttack(scene, Taker)
    /\ hasLineOfSightToPlayer(scene, Taker)
    /\ ~scene.battleOver

\* the event at place k of the history comes before one at place m
Before(log, k, m) == k \in DOMAIN log /\ m \in DOMAIN log /\ k < m

\* C12: within one ranged turn the phases come in the order approach,
\* attack, retreat and are never interleaved: no move toward the player
\* comes after the attack or after a retreat move, and no attack comes
\* after a retreat move.
C12_PhasesInOrder ==
    (TurnTaken /\ Taker.aiType = "ranged") =>
        \A k \in DOMAIN turn.log, m \in DOMAIN turn.log :
            Before(turn.log, k, m) =>
                /\ ~(turn.log[k] \in {"attack", "away"}
                        /\ turn.log[m] = "toward")
                /\ ~(turn.log[k] = "away" /\ turn.log[m] = "attack")

\* a ranged turn that went through all three phases: a move toward the
\* player, then the attack, then a retreat move
C12_Witness ==
    /\ TurnTaken
    /\ Taker.aiType = "ranged"
    /\ turn.log = <<"toward", "attack", "away">>

\* the step is the start of an attack by the enemy at index j: its
\* attacksThisTurn changes, other than by the reset at the start of a turn
AttackBegins(j) ==
    /\ j \in DOMAIN enemies
    /\ enemies'[j].attacksThisTurn # enemies[j].attacksThisTurn
    /\ enemies'[j].attacksThisTurn # 0

\* the step is the blow of an attack: the player's hit points change
BlowLands == scene'.playerHP # scene.playerHP

\* C13: a melee enemy attacks only when its distance to the player is
\* exactly 1, attacksThisTurn < maxAttacksPerTurn and ap >= 1; the attack
\* takes exactly one action point, adds exactly one to attacksThisTurn and
\* leaves the enemy where it is; its blow lowers the player's hit points by
\* the enemy's damage, floored at 0, and every attack begun lands its blow
\* as the next step of the battle.
C13_MeleeAttack ==
    [][ /\ \A j \in DOMAIN enemies :
             (enemies[j].aiType = "melee" /\ AttackBegins(j)) =>
                /\ getDistanceToPlayer(scene, enemies[j]) = 1
                /\ enemies[j].attacksThisTurn < enemies[j].maxAttacksPerTurn
                /\ enemies[j].ap >= 1
                /\ enemies'[j].ap = enemies[j].ap - 1
                /\ enemies'[j].attacksThisTurn = enemies[j].attacksThisTurn + 1
                /\ enemies'[j].pos = enemies[j].pos
                /\ scene' = scene
                /\ turn'.pc = "strike"
                /\ turn'.index = j
        /\ (turn.pc = "strike" /\ Actor.aiType = "melee") =>
                /\ scene'.playerHP = Max(0, scene.playerHP - Actor.damage)
                /\ scene'.playerHP >= 0
                /\ enemies' = enemies
        /\ (BlowLands /\ TurnTaken /\ Taker.aiType = "melee") =>
                turn.pc = "strike"
      ]_vars

\* a melee enemy has begun an attack, its second of the turn, whose blow
\* will be floored: the player has fewer hit points left than the enemy's
\* damage
C13_Witness ==
    /\ turn.pc = "strike"
    /\ Actor.aiType = "melee"
    /\ Actor.attacksThisTurn = Actor.maxAttacksPerTurn
    /\ scene.playerHP > 0
    /\ scene.playerHP < Actor.damage

\* the hex next to h in direction k of the fixed neighbour order
Toward(h, k) == Hex(h.q + directions[k].q, h.r + directions[k].r)

\* something other than the enemy at index i bars the hex: a wall, a trap,
\* another live enemy or the player
Barred(i, h) ==
    \/ \E o \in scene.obstacles :
          o.type \in {"wall", "trap"} /\ o.q = h.q /\ o.r = h.r
    \/ \E j \in DOMAIN enemies :
          j # i /\ enemies[j].isAlive /\ enemies[j].pos = h
    \/ scene.playerPos = h

\* the enemy at index i may retreat in direction k: onto a valid hex that
\* nothing bars and that is strictly farther from the player
Qualifies(i, k) ==
    LET h == Toward(enemies[i].pos, k)
    IN  /\ h \in HexSet
        /\ ~Barred(i, h)
        /\ getDistance(h.q, h.r, scene.playerPos.q, scene.playerPos.r)
             > getDistanceToPlayer(scene, enemies[i])

\* C14: every retreat step of a ranged enemy moves it onto a valid
\* neighbouring hex that is no wall, trap, other live enemy or the player's
\* hex and is strictly farther from the player than the hex it leaves; of
\* the neighbours that qualify it takes the first in the fixed neighbour
\* order; and when no neighbour qualifies, the retreat phase stops and the
\* enemy neither moves nor spends an action point.
C14_RetreatStep ==
    [][ turn.pc = "retreat" =>
          /\ enemies'[turn.index] # Actor =>
                \E k \in DOMAIN directions :
                    /\ Qualifies(turn.index, k)
                    /\ \A m \in DOMAIN directions :
                          Qualifies(turn.index, m) => k <= m
                    /\ enemies'[turn.index] =
                         [Actor EXCEPT !.pos = Toward(Actor.pos, k),
                                       !.ap = Actor.ap - 1]
          /\ (\A k \in DOMAIN directions : ~Qualifies(turn.index, k)) =>
                /\ enemies' = enemies
                /\ turn'.pc = "delay"
          /\ \A j \in DOMAIN enemies :
                j # turn.index => enemies'[j] = enemies[j]
      ]_vars

\* a ranged enemy has attacked from where its turn began and then made one
\* retreat step, and a neighbour of that hex earlier in the order and
\* farther from the player than the hex was passed over for the trap on it
C14_Witness ==
    /\ TurnTaken
    /\ Taker.aiType = "ranged"
    /\ turn.log = <<"attack", "away">>
    /\ \E k \in DOMAIN directions, m \in DOMAIN directions :
          /\ k < m
          /\ Taker.pos = Toward(turn.origin, m)
          /\ Toward(turn.origin, k) \in HexSet
          /\ getDistance(Toward(turn.origin, k).q, Toward(turn.origin, k).r,
                         scene.playerPos.q, scene.playerPos.r)
               = getDistanceToPlayer(scene, Taker)
          /\ \E o \in scene.obstacles :
                /\ o.type = "trap"
                /\ Hex(o.q, o.r) = Toward(turn.origin, k)

\* the latest turn is that of a ranged enemy with range 3, preferred
\* distance 3 and 3 action points, begun on (3,0) with the player on (0,0)
\* on a grid without obstacles
RangedScenario ==
    /\ TurnTaken
    /\ Taker.aiType = "ranged"
    /\ Taker.range = 3
    /\ Taker.preferredDistance = 3
    /\ Taker.maxAP = 3
    /\ turn.origin = Hex(3, 0)
    /\ scene.playerPos = Hex(0, 0)
    /\ scene.obstacles = {}
    /\ Len(enemies) = 1

\* C15: on the radius-5 grid without obstacles a ranged enemy on (3,0) with
\* range 3, preferred distance 3 and 3 action points, facing the player on
\* (0,0), makes no approach move, exactly one attack and no retreat move in
\* its turn, and ends the turn with 2 action points unused.
C15_RangedScenario ==
    RangedScenario =>
        /\ Moves(turn.log) = 0
        /\ Taker.pos = Hex(3, 0)
        /\ Attacks(turn.log) <= 1
        /\ TurnEnded => /\ turn.log = <<"attack">>
                        /\ Taker.ap = 2
                        /\ Taker.attacksThisTurn = 1

\* the turn of the scenario has ended, on the grid of radius 5
C15_Witness ==
    /\ RangedScenario
    /\ TurnEnded
    /\ Len(hexes) = Cardinality(Region(gridRadius))
    /\ Attacks(turn.log) = 1
    /\ Taker.ap = 2

\* the latest turn is that of a melee enemy with 3 action points, begun on
\* (2,0) with the player on (0,0) on a grid without obstacles
MeleeScenario ==
    /\ TurnTaken
    /\ Taker.aiType = "melee"
    /\ Taker.maxAP = 3
    /\ turn.origin = Hex(2, 0)
    /\ scene.playerPos = Hex(0, 0)
    /\ scene.obstacles = {}
    /\ Len(enemies) = 1

\* C16 as claimed: the melee enemy of the scenario spends exactly 2 moves to
\* come to distance 1, then attacks exactly once, and ends its turn with
\* exactly 0 action points.
C16_Original ==
    (MeleeScenario /\ TurnEnded) =>
        /\ Moves(turn.log) = 2
        /\ Attacks(turn.log) = 1
        /\ Taker.ap = 0

\* the first k events of the history
Prefix(log, k) == SubSeq(log, 1, k)

\* C16: the melee enemy of the scenario spends exactly 1 move to come to
\* distance 1 (onto (1,0)), then attacks as often as maxAttacksPerTurn and
\* its action points allow, which is twice, unless the player is defeated
\* before; against a player who survives, it ends its turn after 1 move and
\* 2 attacks with exactly 0 action points.
C16_MeleeScenario ==
    MeleeScenario =>
        /\ \E k \in 0..3 : turn.log = Prefix(<<"toward", "attack", "attack">>, k)
        /\ Moves(turn.log) = 1 => Taker.pos = Hex(1, 0)
        /\ (TurnEnded /\ ~scene.battleOver) =>
              /\ turn.log = <<"toward", "attack", "attack">>
              /\ getDistanceToPlayer(scene, Taker) = 1
              /\ Taker.ap = 0

\* the turn of the scenario has ended with the player alive
C16_Witness ==
    /\ MeleeScenario
    /\ TurnEnded
    /\ ~scene.battleOver
    /\ Moves(turn.log) = 1
    /\ Attacks(turn.log) = 2
    /\ Taker.ap = 0

\* the player is within the enemy's range of the hex
InRangeFrom(e, h) ==
    getDistance(h.q, h.r, scene.playerPos.q, scene.playerPos.r) <= e.range

\* no wall lies on an interior sample of the line from the hex to the player
InSightFrom(h) ==
    hasLineOfSight(h.q, h.r, scene.playerPos.q, scene.playerPos.r,
                   { Hex(o.q, o.r) : o \in { w \in scene.obstacles :
                                               w.type = "wall" } })

\* C17: every attack of a ranged enemy starts in a state where the player
\* is within its range and in its line of sight (walls only) from the hex it
\* stands on; hence a ranged enemy that began its turn in range but with a
\* wall on the line to the player has completed at least one move when it
\* attacks in that turn.
C17_RangedAttackInSight ==
    [][ \A j \in DOMAIN enemies :
          (enemies[j].aiType = "ranged" /\ AttackBegins(j)) =>
             /\ j = turn.actor
             /\ InRangeFrom(enemies[j], enemies[j].pos)
             /\ InSightFrom(enemies[j].pos)
             /\ (InRangeFrom(enemies[j], turn.origin)
                   /\ ~InSightFrom(turn.origin)) =>
                   /\ Count(turn.log, "toward") >= 1
                   /\ enemies[j].pos # turn.origin
                   /\ enemies[j].ap < enemies[j].maxAP
      ]_vars

\* a ranged enemy that began its turn in range of the player, a wall on the
\* line between them, has moved and then attacked
C17_Witness ==
    /\ TurnTaken
    /\ Taker.aiType = "ranged"
    /\ InRangeFrom(Taker, turn.origin)
    /\ ~InSightFrom(turn.origin)
    /\ Count(turn.log, "toward") >= 1
    /\ Attacks(turn.log) = 1

\* the events of a history that are failed steps, and those that are actions
FailedSteps == {"towardFailed", "awayFailed"}

Actions == {"toward", "attack", "away"}

\* C18 as claimed: when a required step of an enemy's turn cannot be
\* completed (moveTowardPlayer finds no path or no usable first step, or
\* moveAwayFromPlayer finds no neighbour to retreat to), the turn ends: the
\* enemy makes no further move or attack in that turn; in particular a
\* ranged enemy whose approach step failed does not retreat afterwards.
C18_Original ==
    TurnTaken =>
        \A k \in DOMAIN turn.log, m \in DOMAIN turn.log :
            (Before(turn.log, k, m) /\ turn.log[k] \in FailedSteps) =>
                turn.log[m] \notin Actions

\* an enemy's turn is under way: executeTurn has not returned
InTurn == turn.pc \in {"melee", "approach", "attack", "retreat", "strike"}

\* how far the code position is from the return of executeTurn
Rank(pc) ==
    CASE pc = "approach" -> 5
      [] pc = "attack"   -> 4
      [] pc = "strike"   -> 3
      [] pc = "retreat"  -> 2
      [] pc = "melee"    -> 2
      [] OTHER           -> 0

\* what is left of a turn in the state t of the activation, e the enemy
\* taking it: its action points first, then the distance of its code
\* position from the return
Remaining(t, e) == 6 * e.ap + Rank(t.pc)

\* C19: every enemy turn terminates with a finite sequence of actions, and
\* the moves and attacks of one turn are never more than the enemy's maxAP:
\* each move and each attack costs one action point of the maxAP the turn
\* began with, the action points never fall below 0, and every step of a turn
\* either spends an action point or brings the code nearer to its return, so
\* that a turn is over after at most Remaining steps.
C19_TurnBudget ==
    [][ /\ TurnTaken' =>
             /\ Moves(turn'.log) + Attacks(turn'.log)
                  = Taker'.maxAP - Taker'.ap
             /\ Taker'.ap >= 0
             /\ Moves(turn'.log) + Attacks(turn'.log) <= Taker'.maxAP
        /\ InTurn =>
             /\ turn.index \in DOMAIN enemies
             /\ turn.actor = turn.index
             /\ turn'.actor = turn.actor
             /\ Remaining(turn', Taker') < Remaining(turn, Taker)
             /\ Remaining(turn', Taker') >= 0
             /\ \/ Taker'.ap = Taker.ap - 1
                \/ Taker'.ap = Taker.ap /\ Rank(turn'.pc) < Rank(turn.pc)
      ]_vars

\* a turn has ended in which the enemy spent all its action points on moves
\* and an attack
C19_Witness ==
    /\ TurnEnded
    /\ Taker.ap = 0
    /\ Moves(turn.log) + Attacks(turn.log) = Taker.maxAP
    /\ Moves(turn.log) >= 1
    /\ Attacks(turn.log) >= 1

\* C20: once the battle is over, no enemy moves or attacks any more: the
\* turn of the acting enemy stops before its next action, the remaining
\* enemies are given no turn, the player phase is not started again, and the
\* player's hit points never change again.
C20_BattleOver ==
    [][ scene.battleOver =>
          /\ scene'.battleOver
          /\ enemies' = enemies
          /\ turn'.log = turn.log
          /\ turn'.actor = turn.actor
          /\ turn'.pc \notin {"strike"}
          /\ scene'.currentPhase = "none"
          /\ scene'.playerHP = scene.playerHP
          /\ scene'.playerPos = scene.playerPos
      ]_vars

\* the enemy phase has ended after the first of two enemies defeated the
\* player with an attack it could have followed by another; the second
\* enemy, alive and with the player in its range, was given no turn (the
\* latest turn is that of the first)
C20_Witness ==
    /\ scene.battleOver
    /\ scene.playerHP = 0
    /\ turn.pc = "idle"
    /\ Len(enemies) = 2
    /\ turn.actor = 1
    /\ canAttack(Taker)
    /\ canReachPlayerWithAttack(scene, Taker)
    /\ enemies[2].isAlive
    /\ canReachPlayerWithAttack(scene, enemies[2])


(***************************************************************************)
(* The HexGrid utilities on their own.  call holds                         *)
(*   pc        "new" (constructor not yet run), "ready" (constructed),     *)
(*             "done" (a utility call has returned)                        *)
(*   radius    the gridRadius handed to the constructor                    *)
(*   op        the method called                                           *)
(*   a, b      its coordinate arguments                                    *)
(*   qn, rn, sn, den   its fractional arguments qn/den, rn/den, sn/den     *)
(*   valid, neighbors, distance, rounded   the value returned, by method   *)
(***************************************************************************)
\* the largest gridRadius a grid is constructed with
MaxRadius == 2

\* how many radii below 1 a grid is constructed with (0, -1, ...)
NonPositiveRadii == 2

\* how far beyond the largest grid the coordinate arguments reach
Margin == 1

\* fractional arguments are multiples of 1 / FractionDen ...
FractionDen == 4

\* ... of absolute value up to FractionReach / FractionDen
FractionReach == 6

\* roundHex (lines 67-85) for q = qn/den, r = rn/den; the differences are
\* compared scaled by den
roundHex(qn, rn, den) ==
    LET sn == -qn - rn
        rq == MathRound(qn, den)
        rr == MathRound(rn, den)
        rs == MathRound(sn, den)
        qDiff == Abs(rq * den - qn)
        rDiff == Abs(rr * den - rn)
        sDiff == Abs(rs * den - sn)
    IN  IF qDiff > rDiff /\ qDiff > sDiff THEN Hex(-rr - rs, rr)
        ELSE IF rDiff > sDiff THEN Hex(rq, -rq - rs)
        ELSE Hex(rq, rr)

\* every integer pair with both coordinates within n of 0
Box(n) == { Hex(q, r) : q \in -n..n, r \in -n..n }

Coordinates == Box(MaxRadius + Margin)

Fractions == -FractionReach..FractionReach

CallNew(radius) ==
    [pc |-> "new", radius |-> radius, op |-> "none",
     a |-> Hex(0, 0), b |-> Hex(0, 0), qn |-> 0, rn |-> 0, sn |-> 0, den |-> 1,
     valid |-> FALSE, neighbors |-> <<>>, distance |-> 0,
     rounded |-> Hex(0, 0)]

\* new HexGrid(hexSize, gridRadius, centerX, centerY) is about to run
InitHexGrid ==
    /\ hexes = <<>>
    /\ \E radius \in (1 - NonPositiveRadii)..MaxRadius : call = CallNew(radius)
    /\ fp = FpIdle
    /\ fpOrder = <<>>
    /\ los = LosIdle
    /\ scene = SceneIdle
    /\ enemies = <<>>
    /\ turn = TurnIdle

\* the constructor: it stores gridRadius and generates the hexes, whatever
\* the radius is
HexGridConstruct ==
    /\ call.pc = "new"
    /\ hexes' = generateHexGrid(call.radius)
    /\ call' = [call EXCEPT !.pc = "ready"]
    /\ UNCHANGED <<fp, fpOrder, los, scene, enemies, turn>>

IsValidHexCall ==
    /\ call.pc = "ready"
    /\ \E a \in Coordinates :
         call' = [call EXCEPT !.pc = "done", !.op = "isValidHex", !.a = a,
                              !.valid = isValidHex(a.q, a.r)]
    /\ UNCHANGED <<hexes, fp, fpOrder, los, scene, enemies, turn>>

GetNeighborsCall ==
    /\ call.pc = "ready"
    /\ \E a \in Coordinates :
         call' = [call EXCEPT !.pc = "done", !.op = "getNeighbors", !.a = a,
                              !.neighbors = getNeighbors(a.q, a.r)]
    /\ UNCHANGED <<hexes, fp, fpOrder, los, scene, enemies, turn>>

GetDistanceCall ==
    /\ call.pc = "ready"
    /\ \E a \in Coordinates, b \in Coordinates :
         call' = [call EXCEPT !.pc = "done", !.op = "getDistance",
                              !.a = a, !.b = b,
                              !.distance = getDistance(a.q, a.r, b.q, b.r)]
    /\ UNCHANGED <<hexes, fp, fpOrder, los, scene, enemies, turn>>

RoundHexCall ==
    /\ call.pc = "ready"
    /\ \E qn \in Fractions, rn \in Fractions :
         call' = [call EXCEPT !.pc = "done", !.op = "roundHex",
                              !.qn = qn, !.rn = rn, !.sn = -qn - rn,
                              !.den = FractionDen,
                              !.rounded = roundHex(qn, rn, FractionDen)]
    /\ UNCHANGED <<hexes, fp, fpOrder, los, scene, enemies, turn>>

\* getHexLine, the only caller, hands over s = -q - r
RoundCubeCall ==
    /\ call.pc = "ready"
    /\ \E qn \in Fractions, rn \in Fractions :
         call' = [call EXCEPT !.pc = "done", !.op = "roundCube",
                              !.qn = qn, !.rn = rn, !.sn = -qn - rn,
                              !.den = FractionDen,
                              !.rounded = roundCube(qn, rn, -qn - rn,
                                                    FractionDen)]
    /\ UNCHANGED <<hexes, fp, fpOrder, los, scene, enemies, turn>>

NextHexGrid ==
    \/ HexGridConstruct
    \/ IsValidHexCall
    \/ GetNeighborsCall
    \/ GetDistanceCall
    \/ RoundHexCall
    \/ RoundCubeCall

SpecHexGrid == InitHexGrid /\ [][NextHexGrid]_vars

Returned(op) == call.pc = "done" /\ call.op = op

\* the cube norm of a coordinate: max(|q|, |r|, |q + r|)
CubeNorm(h) == Max(Abs(h.q), Max(Abs(h.r), Abs(h.q + h.r)))

\* the elements of a sequence are pairwise different
NoRepeats(seq) == \A i, j \in DOMAIN seq : seq[i] = seq[j] => i = j

\* C25: for valid coordinates a and b of the grid, getDistance(a, b) is 1 if
\* and only if b is among the coordinates getNeighbors(a) returns.
C25_NeighborsAtDistanceOne ==
    (Returned("getNeighbors") /\ isValidHex(call.a.q, call.a.r)) =>
        \A b \in HexSet :
            (getDistance(call.a.q, call.a.r, b.q, b.r) = 1)
                <=> (b \in SeqElems(call.neighbors))

\* getNeighbors has returned for a corner of the largest grid, which has
\* three neighbours on the grid and three beyond its edge
C25_Witness ==
    /\ Returned("getNeighbors")
    /\ call.radius = MaxRadius
    /\ isValidHex(call.a.q, call.a.r)
    /\ CubeNorm(call.a) = MaxRadius
    /\ Len(call.neighbors) = 3

\* the sum |dq| + |dq + dr| + |dr| of the three cube-axis differences
CubeSum(a, b) ==
    Abs(a.q - b.q) + Abs(a.q + a.r - b.q - b.r) + Abs(a.r - b.r)

\* C26: for all integer coordinates a and b, getDistance(a, a) is 0,
\* getDistance(a, b) equals getDistance(b, a), and getDistance(a, b) is a
\* non-negative integer: the sum |dq| + |dq + dr| + |dr| it halves is even.
C26_DistanceSymmetricInteger ==
    Returned("getDistance") =>
        /\ getDistance(call.a.q, call.a.r, call.a.q, call.a.r) = 0
        /\ call.a = call.b => call.distance = 0
        /\ call.distance = getDistance(call.b.q, call.b.r, call.a.q, call.a.r)
        /\ call.distance >= 0
        /\ CubeSum(call.a, call.b) % 2 = 0
        /\ 2 * call.distance = CubeSum(call.a, call.b)

\* getDistance has returned for two coordinates off the grid that differ on
\* all three cube axes, the differences being of both signs
C26_Witness ==
    /\ Returned("getDistance")
    /\ ~isValidHex(call.a.q, call.a.r)
    /\ ~isValidHex(call.b.q, call.b.r)
    /\ call.a.q < call.b.q
    /\ call.a.r > call.b.r
    /\ call.a.q + call.a.r # call.b.q + call.b.r
    /\ call.distance > 1

\* C27: for a grid of radius R, isValidHex(q, r) is true exactly for the
\* integer pairs with max(|q|, |r|, |q + r|) <= R; the generated list holds
\* each such pair exactly once (with s = -q - r) and nothing else, and no
\* step changes the list once the constructor has built it.
C27_ValidHexes ==
    [][ /\ call'.pc # "new" =>
             /\ \A i \in DOMAIN hexes' :
                  /\ CubeNorm(hexes'[i]) <= call'.radius
                  /\ hexes'[i].s = -hexes'[i].q - hexes'[i].r
             /\ \A h \in Coordinates :
                  CubeNorm(h) <= call'.radius =>
                      \E i \in DOMAIN hexes' : Hex(hexes'[i].q, hexes'[i].r) = h
             /\ NoRepeats(hexes')
             /\ (call'.pc = "done" /\ call'.op = "isValidHex") =>
                  (call'.valid <=> CubeNorm(call'.a) <= call'.radius)
        /\ call.pc # "new" => hexes' = hexes
      ]_vars

\* isValidHex has returned false for a coordinate whose q and r are both
\* within the radius but whose q + r is not
C27_Witness ==
    /\ Returned("isValidHex")
    /\ call.radius = MaxRadius
    /\ Abs(call.a.q) <= call.radius
    /\ Abs(call.a.r) <= call.radius
    /\ Abs(call.a.q + call.a.r) > call.radius
    /\ ~call.valid
    /\ Len(hexes) = 3 * MaxRadius * (MaxRadius + 1) + 1

\* C28: getNeighbors(q, r) returns exactly the valid coordinates among
\* (q, r) + (1,0), (1,-1), (0,-1), (-1,0), (-1,1), (0,1), in that relative
\* order, with no invalid coordinate and no repeated one.
C28_NeighborsInOrder ==
    Returned("getNeighbors") =>
        LET q == call.a.q
            r == call.a.r
            around == << Hex(q + 1, r), Hex(q + 1, r - 1), Hex(q, r - 1),
                         Hex(q - 1, r), Hex(q - 1, r + 1), Hex(q, r + 1) >>
            OnGrid(h) == CubeNorm(h) <= call.radius
        IN  /\ call.neighbors = SelectSeq(around, OnGrid)
            /\ \A i \in DOMAIN call.neighbors :
                  isValidHex(call.neighbors[i].q, call.neighbors[i].r)
            /\ NoRepeats(call.neighbors)

\* getNeighbors has returned for a coordinate just off the largest grid:
\* the list holds the two hexes of the grid's edge, third and fourth of
\* the six offsets, and the offsets before and after them are skipped
C28_Witness ==
    /\ Returned("getNeighbors")
    /\ call.radius = MaxRadius
    /\ call.a = Hex(MaxRadius, 1)
    /\ call.neighbors = << Hex(MaxRadius, 0), Hex(MaxRadius - 1, 1) >>

\* C29: a grid is never constructed with a radius that is not positive; the
\* constructor rejects such a radius and no grid object comes to exist.
C29_Original == ~(call.pc \in {"ready", "done"} /\ call.radius <= 0)

\* the integer nearest to n/den, the upper one of two equally near
Nearest(n, den) ==
    LET reach == Abs(n) \div den + 1
    IN  CHOOSE k \in -reach..reach :
            /\ 2 * (k * den - n) <= den
            /\ 2 * (k * den - n) > -den

\* the rounding error of n/den, scaled by den
RoundingError(n, den) == Abs(Nearest(n, den) * den - n)

\* C30: roundHex and roundCube round each of q, r, s to the nearest integer
\* and recompute exactly one component from the other two: q if its rounding
\* error strictly exceeds both others, otherwise r if its error strictly
\* exceeds that of s, otherwise s.  The result has q + r + s = 0, where s is
\* the rounded s unless s is the component recomputed, and the two components
\* not recomputed equal their independent roundings.
C30_CubeRounding ==
    (Returned("roundHex") \/ Returned("roundCube")) =>
        LET rq == Nearest(call.qn, call.den)
            rr == Nearest(call.rn, call.den)
            rs == Nearest(call.sn, call.den)
            qDiff == RoundingError(call.qn, call.den)
            rDiff == RoundingError(call.rn, call.den)
            sDiff == RoundingError(call.sn, call.den)
            q == call.rounded.q
            r == call.rounded.r
        IN  /\ 2 * qDiff <= call.den /\ 2 * rDiff <= call.den
            /\ 2 * sDiff <= call.den
            /\ (qDiff > rDiff /\ qDiff > sDiff) =>
                  r = rr /\ q + r + rs = 0
            /\ (~(qDiff > rDiff /\ qDiff > sDiff) /\ rDiff > sDiff) =>
                  q = rq /\ q + r + rs = 0
            /\ (~(qDiff > rDiff /\ qDiff > sDiff) /\ ~(rDiff > sDiff)) =>
                  q = rq /\ r = rr

\* roundHex has returned for an argument whose three roundings do not sum
\* to 0 and whose q has the largest error by far: the q returned is not
\* the rounded q
C30_Witness ==
    /\ Returned("roundHex")
    /\ Nearest(call.qn, call.den) + Nearest(call.rn, call.den)
          + Nearest(call.sn, call.den) # 0
    /\ RoundingError(call.qn, call.den) > RoundingError(call.rn, call.den)
    /\ RoundingError(call.qn, call.den) > RoundingError(call.sn, call.den)
    /\ call.rounded.q # Nearest(call.qn, call.den)
    /\ call.rounded.r = Nearest(call.rn, call.den)

(***************************************************************************)
(* The enemy phase as a whole, in battles where the player acts too.       *)
(***************************************************************************)
\* the step gives the enemy the loop is at its turn
TurnBegins ==
    /\ turn.pc = "forEach"
    /\ turn'.pc \in {"melee", "approach"}
    /\ turn'.index = turn.index
    /\ turn'.actor = turn.index

\* the step passes over the enemy the loop is at
TurnSkipped ==
    /\ turn.pc = "forEach"
    /\ turn'.pc = "forEach"
    /\ turn'.index = turn.index + 1
    /\ turn'.actor = turn.actor
    /\ enemies' = enemies

\* the loop of startEnemyPhase is at an enemy of the list
AtEnemy == turn.pc = "forEach" /\ turn.index \in DOMAIN enemies

\* what every step does to the enemy phase, whether or not the battle is
\* over: one enemy at a time, in list order
OneAtATime ==
    /\ Len(enemies') = Len(enemies)
    \* an enemy changes only in its own turn, or by the player's blow
    /\ \A j \in DOMAIN enemies :
          enemies'[j] # enemies[j] =>
             \/ /\ scene.tween.kind = "lunge"
                /\ scene.tween.target = j
                /\ turn.pc = "idle"
             \/ /\ turn.pc \in {"forEach", "melee", "approach", "attack",
                                "retreat"}
                /\ turn.index = j
                /\ turn'.index = j
                /\ turn'.actor = j
                /\ scene.tween.kind = "none"
    \* the player is hurt by the enemy whose turn it is, or by a trap
    /\ scene'.playerHP # scene.playerHP =>
          \/ turn.pc = "strike" /\ turn.actor = turn.index
                /\ turn'.index = turn.index
          \/ scene.tween.kind = "step" /\ turn.pc = "idle"
    \* the loop goes through the list from the first enemy, one by one
    /\ turn'.index # turn.index =>
          \/ turn.pc = "idle" /\ turn'.pc = "forEach" /\ turn'.index = 1
          \/ /\ turn.pc \in {"forEach", "delay"}
             /\ turn'.pc = "forEach"
             /\ turn'.index = turn.index + 1
    /\ turn.pc = "delay" => turn'.pc = "forEach" /\ turn'.index = turn.index + 1
    \* a turn begins for the enemy the loop is at, and only if it is alive
    /\ (turn'.actor # turn.actor /\ turn'.actor # 0) =>
          TurnBegins /\ enemies[turn.index].isAlive
    /\ AtEnemy => TurnBegins \/ TurnSkipped
    \* the phase ends behind the last enemy
    /\ (turn.pc # "idle" /\ turn'.pc = "idle") =>
          turn.pc = "forEach" /\ turn.index = Len(enemies) + 1

\* C21, as stated: one enemy acts at a time, in list order, and every live
\* enemy the loop comes to gets its turn.
C21_Original ==
    [][ /\ OneAtATime
        /\ (AtEnemy /\ enemies[turn.index].isAlive) => TurnBegins
        /\ (AtEnemy /\ ~enemies[turn.index].isAlive) => TurnSkipped
      ]_vars

\* C21: during an enemy phase at most one enemy is acting at any time: the
\* enemies take their turns in list order, every move and attack of one
\* enemy, the blow of an attack included, happens before the loop goes on
\* to the next enemy, and every enemy that is alive when the loop comes to
\* it gets exactly one turn, unless the battle is over by then: then it is
\* passed over like a dead one.
C21_EnemiesInTurn ==
    [][ /\ OneAtATime
        /\ (AtEnemy /\ enemies[turn.index].isAlive /\ ~scene.battleOver)
              => TurnBegins
        /\ (AtEnemy /\ (~enemies[turn.index].isAlive \/ scene.battleOver))
              => TurnSkipped
      ]_vars

\* the second enemy has moved or attacked in its turn after the first, dead
\* by the player's hand, was passed over
C21_Witness ==
    /\ turn.pc = "delay"
    /\ turn.index = 2
    /\ turn.actor = 2
    /\ ~enemies[1].isAlive
    /\ enemies[2].isAlive
    /\ turn.log # <<>>
    /\ ~scene.battleOver

\* C22: at the moment an enemy's turn begins, its ap equals maxAP and its
\* attacksThisTurn equals 0, nothing else of it having changed; and resetTurn
\* is applied at that moment only: at no other step do an enemy's action
\* points grow or its count of attacks fall.
C22_ResetBeforeTurn ==
    [][ /\ TurnBegins =>
             /\ enemies'[turn.index].ap = enemies[turn.index].maxAP
             /\ enemies'[turn.index].attacksThisTurn = 0
             /\ enemies' = [enemies EXCEPT
                              ![turn.index].ap = enemies[turn.index].maxAP,
                              ![turn.index].attacksThisTurn = 0]
             /\ turn'.log = <<>>
        /\ \A j \in DOMAIN enemies :
              (\/ enemies'[j].ap > enemies[j].ap
               \/ enemies'[j].attacksThisTurn < enemies[j].attacksThisTurn)
                 => TurnBegins /\ turn.index = j
      ]_vars

\* the turn of the second enemy has just begun, with all its action points
\* and no attack counted, right after the turn of the first, which still
\* shows the attacks it made and the action points it spent
C22_Witness ==
    /\ turn.pc \in {"melee", "approach"}
    /\ turn.log = <<>>
    /\ turn.index = 2
    /\ turn.actor = 2
    /\ enemies[2].ap = enemies[2].maxAP
    /\ enemies[2].attacksThisTurn = 0
    /\ enemies[1].isAlive
    /\ enemies[1].ap = 0
    /\ enemies[1].attacksThisTurn = enemies[1].maxAttacksPerTurn
    /\ scene.playerHP = StartHP - 2 * enemies[1].damage

\* an obstacle of the set lies on the hex
Covers(obstacles, h) == \E o \in obstacles : o.q = h.q /\ o.r = h.r

\* nothing but dead enemies is on the hex: no wall, no trap, no live enemy,
\* not the player
OnlyTheDeadOn(h) ==
    /\ ~Covers(scene.obstacles, h)
    /\ EnemiesOn(enemies, h) = {}
    /\ scene.playerPos # h

\* the dead enemies
Dead == { j \in DOMAIN enemies : ~enemies[j].isAlive }

\* no obstacle set of the state holds a hex on which only dead enemies are
DeadAreNoObstacle ==
    \A j \in Dead :
        OnlyTheDeadOn(enemies[j].pos) =>
            /\ \A i \in DOMAIN enemies :
                  ~Covers(getObstacles(scene, enemies, i), enemies[j].pos)
            /\ \A h \in HexSet :
                  ~Covers(PlayerPathObstacles(scene, enemies, h),
                          enemies[j].pos)

\* C23: in every reachable state an enemy with hp = 0 has isAlive = false;
\* a dead enemy stays dead and unchanged, no turn begins for it, no attack
\* of the player is started or lands on it, and its coordinate is in no
\* obstacle set, neither the one of another enemy's movement nor the one of
\* the player's path.
C23_DeadEnemies ==
    [][ /\ \A j \in DOMAIN enemies' :
              /\ enemies'[j].hp = 0 => ~enemies'[j].isAlive
              /\ enemies'[j].hp >= 0
        /\ \A j \in Dead : enemies'[j] = enemies[j]
        /\ TurnBegins => turn.index \notin Dead
        /\ scene'.tween.kind = "lunge" => scene'.tween.target \notin Dead
        /\ DeadAreNoObstacle'
      ]_vars

\* the second enemy has moved, in its turn, onto the hex where the first
\* lies dead
C23_Witness ==
    /\ ~enemies[1].isAlive
    /\ enemies[1].hp = 0
    /\ enemies[2].isAlive
    /\ enemies[2].pos = enemies[1].pos
    /\ turn.actor = 2
    /\ Count(turn.log, "toward") > 0

\* the live enemies
Alive == DOMAIN enemies \ Dead

\* no two live units share a hex, and no live enemy is on a wall or a trap
Apart ==
    /\ \A i \in Alive, j \in Alive :
          enemies[i].pos = enemies[j].pos => i = j
    /\ \A i \in Alive :
          /\ enemies[i].pos # scene.playerPos
          /\ ~Covers(scene.obstacles, enemies[i].pos)
          /\ isValidHex(enemies[i].pos.q, enemies[i].pos.r)
    /\ isValidHex(scene.playerPos.q, scene.playerPos.r)
    /\ ObstacleTypeAt(scene, scene.playerPos) # "wall"

\* C24: in every reachable state of a battle no two live units, enemies and
\* player, are on the same hex, and no live enemy is on a wall, on a trap or
\* on the player's hex; every move of an enemy, approach or retreat, goes to
\* a valid hex next to the one it leaves that holds no wall, no trap, no
\* other live enemy and not the player.
C24_NoSharedHex ==
    [][ /\ Apart'
        /\ \A i \in DOMAIN enemies :
              enemies'[i].pos # enemies[i].pos =>
                 LET to == enemies'[i].pos
                 IN  /\ isValidHex(to.q, to.r)
                     /\ getDistance(to.q, to.r,
                                    enemies[i].pos.q, enemies[i].pos.r) = 1
                     /\ ~Covers(scene.obstacles, to)
                     /\ to # scene.playerPos
                     /\ \A j \in Alive : j # i => enemies[j].pos # to
                     /\ turn'.log # <<>>
                     /\ turn'.log[Len(turn'.log)] \in {"toward", "away"}
      ]_vars

\* a ranged enemy has retreated, as the one move of its turn, to a hex
\* farther from the player, and another hex next to the one it left is
\* farther from the player too but holds a wall, a trap or the other live
\* enemy
C24_Witness ==
    /\ TurnTaken
    /\ Taker.aiType = "ranged"
    /\ Moves(turn.log) = 1
    /\ Count(turn.log, "away") = 1
    /\ Len(enemies) = 2
    /\ \A j \in DOMAIN enemies : enemies[j].isAlive
    /\ \E n \in HexSet :
          /\ getDistance(n.q, n.r, turn.origin.q, turn.origin.r) = 1
          /\ getDistance(n.q, n.r, scene.playerPos.q, scene.playerPos.r)
               > getDistance(turn.origin.q, turn.origin.r,
                             scene.playerPos.q, scene.playerPos.r)
          /\ Covers(scene.obstacles, n) \/ EnemiesOn(enemies, n) # {}
          /\ Taker.pos # n

(***************************************************************************)
(* A player phase on its own.  Every player phase starts from              *)
(* startPlayerPhase or from init: full action points, nothing hovered, no  *)
(* path, no tween; the phase is explored from such states up to the press  *)
(* of the end-turn control, with walks of several hexes.                   *)
(***************************************************************************)
\* how far from the player the pointer is taken in a player phase on its own
WalkReach == 2

\* where the player stands when the phase starts: one step off the centre
WalkStart == Hex(-1, 0)

\* the hexes in the player's way: one holds a wall, one a trap, one the enemy
WalkSpots == << Hex(0, 0), Hex(0, -1), Hex(-1, 1) >>

Strides ==
    { h \in HexSet : getDistance(h.q, h.r, scene.playerPos.q,
                                 scene.playerPos.r) <= WalkReach }
      \cup { Hex(gridRadius + 1, 0) }

\* the start of a player phase: the player with all or the last of its hit
\* points, and next to it a wall, a trap and a live enemy, wounded or not,
\* in any arrangement on the three hexes
InitWalk ==
    /\ hexes = generateHexGrid(BattleRadius)
    /\ fp = FpIdle
    /\ fpOrder = <<>>
    /\ call = CallIdle
    /\ los = LosIdle
    /\ turn = TurnIdle
    /\ \E w \in 1..3, t \in 1..3, e \in 1..3, hp \in {1, StartHP},
          ehp \in {WoundedHP, getEnemyData("scrapper").hp} :
          /\ w # t /\ w # e /\ t # e
          /\ scene = [SceneIdle EXCEPT
                        !.playerPos = WalkStart,
                        !.obstacles =
                           { [q |-> WalkSpots[w].q, r |-> WalkSpots[w].r,
                              type |-> "wall"],
                             [q |-> WalkSpots[t].q, r |-> WalkSpots[t].r,
                              type |-> "trap"] },
                        !.playerHP = hp]
          /\ enemies = << [Enemy("scrapper", WalkSpots[e].q, WalkSpots[e].r)
                             EXCEPT !.hp = ehp] >>

\* the pointer moves over a hex
PointerMoveAfar ==
    /\ PlayerMayAct
    /\ \E h \in Strides : scene' = onPointerMove(scene, enemies, h)
    /\ UNCHANGED <<hexes, call, fp, fpOrder, los, enemies, turn>>

\* a click on a hex
PointerDownAfar ==
    /\ PlayerMayAct
    /\ scene.commands < MaxCommands
    /\ \E h \in Strides : scene' = Commanded(onPointerDown(scene, enemies, h))
    /\ UNCHANGED <<hexes, call, fp, fpOrder, los, enemies, turn>>

NextWalk ==
    \/ PointerMoveAfar
    \/ PointerDownAfar
    \/ PlayerStepComplete
    \/ PlayerAttackComplete
    \/ ResetActionPoints

SpecWalk == InitWalk /\ [][NextWalk]_vars

(***************************************************************************)
(* The pixel conversions of HexGrid.  The source computes in IEEE doubles; *)
(* the model computes in fixed point: a number is an integer count of      *)
(* 1 / Scale, and every product or quotient that is not exact is rounded   *)
(* to the nearest such count, in the order in which the source evaluates   *)
(* its expressions.  Math.sqrt(3) is therefore not the exact root, and     *)
(* Math.sqrt(3) / 3 * Math.sqrt(3) is not 1.  call holds                   *)
(*   pc        "new", "ready" (constructed), "pixel" (hexToPixel has       *)
(*             returned), "done" (pixelToHex has returned)                 *)
(*   hexSize, centerX, centerY, radius   the constructor's arguments       *)
(*   a         the coordinate handed to hexToPixel                         *)
(*   x, y      the pixel returned, in units of 1 / Scale                   *)
(*   dx        how far right of that pixel pixelToHex is asked             *)
(*   rounded   the coordinate returned by pixelToHex                       *)
(***************************************************************************)
\* the binary digits kept after the point
FractionBits == 8

Scale == 2 ^ FractionBits

\* the representable number nearest n / d, in units of 1 / Scale when n is
Fx(n, d) == (2 * n + d) \div (2 * d)

\* the product of two numbers given in units of 1 / Scale
FxMul(a, b) == Fx(a * b, Scale)

\* Math.sqrt(3), correctly rounded
Sqrt3 ==
    CHOOSE n \in 0..(2 * Scale) :
        /\ (2 * n - 1) * (2 * n - 1) < 12 * Scale * Scale
        /\ 12 * Scale * Scale < (2 * n + 1) * (2 * n + 1)

hexSize == 36

width == 900

height == 700

\* hexToPixel (lines 42-49); q and r are integers
hexToPixel(g, q, r) ==
    LET x == g.hexSize * (Sqrt3 * q + Fx(Sqrt3, 2) * r)
        y == g.hexSize * (Fx(3 * Scale, 2) * r)
    IN  [x |-> x + g.centerX * Scale, y |-> y + g.centerY * Scale]

\* pixelToHex without the subtraction of the centre
pixelToHexFromOrigin(g, px, py) ==
    LET q == Fx(FxMul(Fx(Sqrt3, 3), px) - FxMul(Fx(Scale, 3), py), g.hexSize)
        r == Fx(FxMul(Fx(2 * Scale, 3), py), g.hexSize)
    IN  roundHex(q, r, Scale)

\* pixelToHex (lines 54-62); px and py in units of 1 / Scale
pixelToHex(g, px, py) ==
    LET x == px - g.centerX * Scale
        y == py - g.centerY * Scale
        q == Fx(FxMul(Fx(Sqrt3, 3), x) - FxMul(Fx(Scale, 3), y), g.hexSize)
        r == Fx(FxMul(Fx(2 * Scale, 3), y), g.hexSize)
    IN  roundHex(q, r, Scale)

\* the grids constructed: the battle scene's (part_002 lines 52-54: size 36
\* around the middle of the 900 x 700 canvas) and unit-sized ones around the
\* origin
HexSizes == {1, hexSize}

Centers == { <<0, 0>>, <<width \div 2, height \div 2>> }

InitPixel ==
    /\ hexes = <<>>
    /\ \E size \in HexSizes, center \in Centers, radius \in 1..MaxRadius :
         call = [pc |-> "new", op |-> "none", hexSize |-> size,
                 centerX |-> center[1], centerY |-> center[2],
                 radius |-> radius, a |-> Hex(0, 0), x |-> 0, y |-> 0,
                 dx |-> 0, rounded |-> Hex(0, 0)]
    /\ fp = FpIdle
    /\ fpOrder = <<>>
    /\ los = LosIdle
    /\ scene = SceneIdle
    /\ enemies = <<>>
    /\ turn = TurnIdle

PixelGridConstruct ==
    /\ call.pc = "new"
    /\ hexes' = generateHexGrid(call.radius)
    /\ call' = [call EXCEPT !.pc = "ready"]
    /\ UNCHANGED <<fp, fpOrder, los, scene, enemies, turn>>

HexToPixelCall ==
    /\ call.pc = "ready"
    /\ \E a \in Coordinates :
         LET p == hexToPixel(call, a.q, a.r)
         IN  call' = [call EXCEPT !.pc = "pixel", !.op = "hexToPixel",
                                  !.a = a, !.x = p.x, !.y = p.y]
    /\ UNCHANGED <<hexes, fp, fpOrder, los, scene, enemies, turn>>

\* pixelToHex of the pixel returned, or of the pixel one hexSize to its right
PixelToHexCall ==
    /\ call.pc = "pixel"
    /\ \E dx \in {0, call.hexSize} :
         call' = [call EXCEPT !.pc = "done", !.op = "pixelToHex", !.dx = dx,
                              !.rounded = pixelToHex(call,
                                                     call.x + dx * Scale,
                                                     call.y)]
    /\ UNCHANGED <<hexes, fp, fpOrder, los, scene, enemies, turn>>

NextPixel ==
    \/ PixelGridConstruct
    \/ HexToPixelCall
    \/ PixelToHexCall

SpecPixel == InitPixel /\ [][NextPixel]_vars

\* C31: for every valid grid coordinate (q, r), pixelToHex of the pixel that
\* hexToPixel(q, r) returned is exactly (q, r)
C31_RoundTrip ==
    (Returned("pixelToHex") /\ call.dx = 0 /\ isValidHex(call.a.q, call.a.r))
        => call.rounded = call.a

\* a round trip on the battle scene's grid from a rim hex off the q axis
\* whose pixel is not a whole number
C31_Witness ==
    /\ Returned("pixelToHex")
    /\ call.dx = 0
    /\ call.hexSize = hexSize
    /\ call.centerX = width \div 2
    /\ isValidHex(call.a.q, call.a.r)
    /\ CubeNorm(call.a) = call.radius
    /\ call.a.r # 0
    /\ call.x % Scale # 0
    /\ call.rounded = call.a

RECURSIVE ChainSteps(_, _)
\* the number of steps along the recorded predecessor chain from a key back
\* to the key without a predecessor
ChainSteps(cameFrom, key) ==
    IF key \in DOMAIN cameFrom
    THEN 1 + ChainSteps(cameFrom, hexKey(cameFrom[key].q, cameFrom[key].r))
    ELSE 0

\* C32: in findPath the cost-from-start recorded for every discovered
\* coordinate equals the number of steps along its recorded predecessor chain
\* back to the start, and every frontier entry carries f = that number of
\* steps + the hex distance to the goal
C32_Original ==
    fp.pc # "idle" =>
        /\ \A key \in DOMAIN fp.gScore :
              fp.gScore[key] = ChainSteps(fp.cameFrom, key)
        /\ \A i \in DOMAIN fp.openSet :
              LET n == fp.openSet[i]
              IN  n.f = ChainSteps(fp.cameFrom, hexKey(n.q, n.r))
                          + getDistance(n.q, n.r, fp.goal.q, fp.goal.r)

\* the samples of the line from los.a to los.b
LosLine == getHexLine(los.a.q, los.a.r, los.b.q, los.b.r)

\* C33: for distinct valid coordinates a and b, getHexLine(a, b) returns
\* exactly getDistance(a, b) + 1 coordinates, the first equal to a and the
\* last equal to b, every consecutive pair at hex distance exactly 1, and no
\* hex twice
C33_ConnectedLine ==
    (/\ LosDone
     /\ los.a # los.b
     /\ isValidHex(los.a.q, los.a.r)
     /\ isValidHex(los.b.q, los.b.r))
        => /\ Len(LosLine) = LosDist + 1
           /\ LosLine[1] = los.a
           /\ LosLine[Len(LosLine)] = los.b
           /\ \A i \in 1..(Len(LosLine) - 1) :
                 getDistance(LosLine[i].q, LosLine[i].r,
                             LosLine[i + 1].q, LosLine[i + 1].r) = 1
           /\ NoRepeats(LosLine)

\* a line across the whole grid with a sample on the border of two hexes: the
\* three roundings of that sample do not sum to zero
C33_Witness ==
    /\ LosDone
    /\ isValidHex(los.a.q, los.a.r)
    /\ isValidHex(los.b.q, los.b.r)
    /\ LosDist = 2 * LosRadius
    /\ Len(LosLine) = LosDist + 1
    /\ \E i \in 1..(LosDist - 1) :
          LET qn == los.a.q * LosDist + (los.b.q - los.a.q) * i
              rn == los.a.r * LosDist + (los.b.r - los.a.r) * i
          IN  MathRound(qn, LosDist) + MathRound(rn, LosDist)
                + MathRound(-qn - rn, LosDist) # 0

\* every counter of every enemy is within its bounds
EnemyBounds(es) ==
    \A i \in DOMAIN es :
        /\ 0 <= es[i].ap /\ es[i].ap <= es[i].maxAP
        /\ 0 <= es[i].attacksThisTurn
        /\ es[i].attacksThisTurn <= es[i].maxAttacksPerTurn
        /\ 0 <= es[i].hp /\ es[i].hp <= es[i].maxHP

\* enemy i completes a move in this step
EnemyMoved(i) == enemies'[i].pos # enemies[i].pos

\* C34: each enemy always has 0 <= ap <= maxAP, 0 <= attacksThisTurn <=
\* maxAttacksPerTurn and 0 <= hp <= maxHP; every completed move decreases ap
\* by exactly 1, changes nothing else of the enemy but its position, and the
\* new position is at hex distance 1 from the old one
C34_EnemyBounds ==
    [][ /\ EnemyBounds(enemies)
        /\ EnemyBounds(enemies')
        /\ \A i \in DOMAIN enemies :
              EnemyMoved(i) =>
                 /\ enemies'[i] = [enemies[i] EXCEPT !.pos = enemies'[i].pos,
                                                     !.ap = @ - 1]
                 /\ getDistance(enemies[i].pos.q, enemies[i].pos.r,
                                enemies'[i].pos.q, enemies'[i].pos.r) = 1 ]_vars

\* an enemy that has moved in this turn and has used up its action points and
\* its attacks, beside one that the player's blow has brought down to 0 hit
\* points
C34_Witness ==
    /\ EnemyBounds(enemies)
    /\ \E i \in DOMAIN enemies :
          /\ enemies[i].ap = 0
          /\ enemies[i].attacksThisTurn = enemies[i].maxAttacksPerTurn
          /\ turn.actor = i
          /\ Moves(turn.log) >= 1
          /\ enemies[i].pos # turn.origin
    /\ \E j \in DOMAIN enemies : enemies[j].hp = 0 /\ ~enemies[j].isAlive

\* the player's counters are within their bounds
PlayerBounds(sc) ==
    /\ 0 <= sc.actionPoints /\ sc.actionPoints <= maxActionPoints
    /\ 0 <= sc.playerHP /\ sc.playerHP <= playerMaxHP

\* a click starts a move in this step
MoveStarts == scene.tween.kind = "none" /\ scene'.tween.kind = "step"

\* the player enters a hex in this step
HexEntered == scene'.playerPos # scene.playerPos

\* the movement ends in this step
MoveEnds == scene.tween.kind = "step" /\ scene'.tween.kind = "none"

\* C35: the player always has 0 <= actionPoints <= maxActionPoints and
\* 0 <= playerHP <= playerMaxHP; a move is started only with at least as
\* many action points as the path is long, along the path shown; it takes
\* exactly one action point for every hex entered, the hexes of the path in
\* their order, and none otherwise, and ends on the last hex of the path
C35_PlayerMove ==
    [][ /\ PlayerBounds(scene)
        /\ PlayerBounds(scene')
        /\ MoveStarts =>
              /\ scene.currentPath.ret = "path"
              /\ scene'.tween.path = scene.currentPath.path
              /\ scene.actionPoints >= Len(scene.currentPath.path)
              /\ scene'.tween.index = 1
              /\ HexEntered
        /\ HexEntered =>
              /\ scene'.tween.kind = "step"
              /\ scene'.playerPos.q = scene'.tween.path[scene'.tween.index].q
              /\ scene'.playerPos.r = scene'.tween.path[scene'.tween.index].r
              /\ scene'.actionPoints = scene.actionPoints - 1
              /\ scene.tween.kind = "step" =>
                    /\ scene'.tween.path = scene.tween.path
                    /\ scene'.tween.index = scene.tween.index + 1
        /\ (scene.tween.kind = "step" /\ ~HexEntered) =>
              /\ MoveEnds
              /\ scene'.actionPoints = scene.actionPoints
              /\ scene.tween.index = Len(scene.tween.path)
              /\ scene'.playerPos.q = scene.tween.path[Len(scene.tween.path)].q
              /\ scene'.playerPos.r = scene.tween.path[Len(scene.tween.path)].r
      ]_vars

\* the last step of a move along a path of maxActionPoints hexes: the player
\* is on the last hex and has no action point left
C35_Witness ==
    /\ scene.tween.kind = "step"
    /\ Len(scene.tween.path) = maxActionPoints
    /\ scene.tween.index = Len(scene.tween.path)
    /\ scene.playerPos.q = scene.tween.path[scene.tween.index].q
    /\ scene.playerPos.r = scene.tween.path[scene.tween.index].r
    /\ scene.actionPoints = 0
    /\ PlayerBounds(scene)

\* the hit points of the enemies, in list order
EnemyHP(es) == [j \in DOMAIN es |-> es[j].hp]

\* an enemy phase starts in this step
EnemyPhaseStarts == turn.pc = "idle" /\ turn'.pc # "idle"

\* the phase is not the player's, a player action is in progress, or the
\* battle is over
OutsideIdlePhase ==
    scene.currentPhase # "player" \/ scene.isMoving \/ scene.battleOver

\* C36: outside the player's own idle phase (the phase is not 'player', a
\* player move or attack is in progress, or the battle is over) no click and
\* no key press takes effect and no enemy phase is started; what changes
\* then is the work of the action in progress only: during a player action
\* its tween completes, during an enemy phase the player stays where it is
\* with its action points, the enemies keep their hit points, and the phase
\* changes only as the enemy phase ends or the battle does; once the battle
\* is over with nothing in progress, nothing changes any more
C36_InputInert ==
    [][ OutsideIdlePhase =>
          /\ scene'.commands = scene.commands
          /\ ~EnemyPhaseStarts
          /\ scene.isMoving =>
                /\ scene.tween.kind # "none"
                /\ scene'.tween # scene.tween
                /\ turn' = turn
                /\ scene'.currentPhase # scene.currentPhase
                      => scene'.battleOver /\ ~scene.battleOver
          /\ (~scene.isMoving /\ turn.pc # "idle") =>
                /\ scene'.playerPos = scene.playerPos
                /\ EnemyHP(enemies') = EnemyHP(enemies)
                /\ \/ /\ scene'.actionPoints = scene.actionPoints
                      /\ \/ scene'.currentPhase = scene.currentPhase
                         \/ scene'.battleOver /\ ~scene.battleOver
                   \/ /\ turn'.pc = "idle"
                      /\ scene' = startPlayerPhase(
                                     [scene EXCEPT !.isProcessingTurn = FALSE])
          /\ ~(~scene.isMoving /\ turn.pc = "idle")
      ]_vars

\* the player's blow at an enemy is under way while a path of the length the
\* action points allow is still shown and clicks are left: a click would
\* have a move to start
C36_Witness ==
    /\ scene.tween.kind = "lunge"
    /\ scene.isMoving
    /\ scene.currentPhase = "player"
    /\ scene.currentPath.ret = "path"
    /\ Len(scene.currentPath.path) <= scene.actionPoints
    /\ scene.commands < MaxCommands

\* the loop of startEnemyPhase has passed the last enemy
LoopDone == turn.pc = "forEach" /\ turn.index = Len(enemies) + 1

\* where the enemy phase is within the pass of its loop for one enemy:
\* before the turn, in it, behind it
PassRank(pc) ==
    CASE pc = "forEach" -> 2
      [] pc = "delay"   -> 0
      [] OTHER          -> 1

\* a step of the enemy phase brings it nearer to its end: on to the next
\* enemy, or further in the pass for the same enemy, or further in its turn,
\* or out of the loop
PhaseAdvances ==
    \/ /\ turn.index <= Len(enemies)
       /\ turn'.index = turn.index + 1
       /\ turn'.pc = "forEach"
    \/ /\ turn'.index = turn.index
       /\ PassRank(turn'.pc) < PassRank(turn.pc)
    \/ /\ turn'.index = turn.index
       /\ InTurn /\ InTurn'
       /\ Remaining(turn', enemies'[turn.index])
            < Remaining(turn, enemies[turn.index])
    \/ LoopDone /\ turn'.pc = "idle"

\* what every step does to the phase.  When the player ends the turn the
\* phase becomes 'enemy'; the phase leaves 'enemy' for 'player' only in the
\* step in which the loop over the enemies is done, with no enemy turn
\* running and the battle not over, and then the action points are
\* maxActionPoints; that step is the one taken when the loop is done and the
\* battle is not over, and every step of the enemy phase before it brings
\* the loop nearer to its end; any other change of the phase is the end of
\* the battle
PhasesInTurn ==
    [][ /\ EnemyPhaseStarts =>
              /\ scene.currentPhase = "player"
              /\ scene'.currentPhase = "enemy"
              /\ turn'.pc = "forEach" /\ turn'.index = 1
        /\ scene'.currentPhase # scene.currentPhase =>
              \/ /\ scene.currentPhase = "player"
                 /\ scene'.currentPhase = "enemy"
                 /\ EnemyPhaseStarts
              \/ /\ scene.currentPhase = "enemy"
                 /\ scene'.currentPhase = "player"
                 /\ LoopDone
                 /\ turn'.pc = "idle"
                 /\ ~scene'.battleOver
                 /\ scene'.actionPoints = maxActionPoints
              \/ /\ scene'.currentPhase = "none"
                 /\ scene'.battleOver /\ ~scene.battleOver
        /\ scene'.currentPhase = "player" => turn'.pc = "idle"
        /\ turn.pc # "idle" => PhaseAdvances
        /\ (LoopDone /\ ~scene.battleOver) =>
              /\ scene'.currentPhase = "player"
              /\ scene'.actionPoints = maxActionPoints
              /\ ~scene'.isProcessingTurn
      ]_vars

\* the skirmishes on open ground
InitRound == InitSkirmish /\ scene.obstacles = {}

SpecRound == InitRound /\ [][NextSkirmish]_vars

\* the timers and tweens of the scene keep completing: a battle that is
\* not at rest takes a step again and again
KeepsRunning == []<><<NextSkirmish>>_vars

\* C37: the phases strictly alternate: after the player has ended the turn
\* the phase is 'enemy', it never returns to 'player' while an enemy turn is
\* running, and once the enemies have had their turns it does return to
\* 'player', with the action points reset to maxActionPoints, unless the
\* battle is over by then
C37_PhasesAlternate ==
    /\ PhasesInTurn
    /\ KeepsRunning =>
          (scene.currentPhase = "enemy"
             ~> \/ /\ scene.currentPhase = "player"
                   /\ scene.actionPoints = maxActionPoints
                   /\ turn.pc = "idle"
                \/ scene.battleOver)

\* the player phase after an enemy phase in which the last enemy of the
\* list took a turn: the player, who had walked a hex with the only command
\* so far, has all action points again
C37_Witness ==
    /\ scene.currentPhase = "player"
    /\ turn.pc = "idle"
    /\ turn.actor = Len(enemies)
    /\ turn.log # <<>>
    /\ scene.commands = 1
    /\ scene.playerPos # Hex(0, 0)
    /\ scene.actionPoints = maxActionPoints
    /\ ~scene.isMoving

\* C38: the outcome is decided at most once.  battleOver, once true, stays
\* true, currentPhase stays 'none' and the result panel stays as it is, so
\* that a battle never ends in both victory and defeat; the battle is over
\* exactly when a result is shown, and the phase is 'none' exactly then;
\* victory is declared only in a state where every enemy is dead, defeat only
\* in a state where playerHP is 0
C38_DecidedOnce ==
    [][ /\ scene.battleOver =>
              /\ scene'.battleOver
              /\ scene'.currentPhase = "none"
              /\ scene'.panel = scene.panel
        /\ scene'.battleOver <=> scene'.panel \in {"victory", "defeat"}
        /\ scene'.battleOver <=> scene'.currentPhase = "none"
        /\ scene'.panel \in {"none", "victory", "defeat"}
        /\ (scene'.panel = "victory" /\ scene.panel # "victory") =>
              /\ ~scene.battleOver
              /\ \A j \in DOMAIN enemies' : ~enemies'[j].isAlive
              /\ scene'.playerHP > 0
        /\ (scene'.panel = "defeat" /\ scene.panel # "defeat") =>
              /\ ~scene.battleOver
              /\ scene'.playerHP = 0
              /\ \E j \in DOMAIN enemies' : enemies'[j].isAlive
      ]_vars

\* the defeat stands: the player was struck down by the first enemy of the
\* list, after having killed none, and the enemy phase has run to its end
\* past the other enemy without the battle being reopened
C38_Witness ==
    /\ scene.battleOver
    /\ scene.panel = "defeat"
    /\ scene.currentPhase = "none"
    /\ scene.playerHP = 0
    /\ turn.pc = "idle"
    /\ turn.actor = 1
    /\ \A j \in DOMAIN enemies : enemies[j].isAlive

\* the enemy of index j is not next to the player
TooFar(j) ==
    getDistance(scene.playerPos.q, scene.playerPos.r,
                enemies[j].pos.q, enemies[j].pos.r) > 1

\* the player's attack is accepted in this step: its tween starts
AttackStarts == scene.tween.kind = "none" /\ scene'.tween.kind = "lunge"

\* the tween of the player's attack completes in this step
AttackLands == scene.tween.kind = "lunge" /\ scene'.tween.kind # "lunge"

\* C39: attackEnemy on an enemy farther than 1 hex, or with fewer action
\* points than playerAttackCost, leaves the scene and the enemies as they
\* are (action points, hit points, isMoving); an accepted attack takes
\* exactly playerAttackCost action points and, when it lands, takes
\* playerDamage hit points from the enemy, no more than it has, and the
\* enemy is dead exactly if none is left; the enemies' hit points change in
\* no other step
C39_AttackEnemy ==
    [][ /\ \A j \in DOMAIN enemies :
              (TooFar(j) \/ scene.actionPoints < playerAttackCost)
                 => attackEnemy(scene, enemies, j) = scene
        /\ AttackStarts =>
              LET j == scene'.tween.target
              IN  /\ j \in DOMAIN enemies
                  /\ enemies[j].isAlive
                  /\ ~TooFar(j)
                  /\ scene.actionPoints >= playerAttackCost
                  /\ scene'.actionPoints
                        = scene.actionPoints - playerAttackCost
                  /\ scene'.isMoving /\ ~scene.isMoving
                  /\ scene'.playerPos = scene.playerPos
                  /\ enemies' = enemies
        /\ AttackLands =>
              LET j == scene.tween.target
                  left == Max(0, enemies[j].hp - playerDamage)
              IN  /\ enemies' = [enemies EXCEPT
                                   ![j] = [enemies[j] EXCEPT
                                             !.hp = left,
                                             !.isAlive = left > 0]]
                  /\ scene'.actionPoints = scene.actionPoints
                  /\ ~scene'.isMoving
        /\ EnemyHP(enemies') # EnemyHP(enemies) => AttackLands
      ]_vars

\* the player, out of action points, stands next to the enemy that its blow
\* has left alive with fewer hit points: an attack was accepted, and the next
\* would be refused
C39_Witness ==
    /\ PlayerMayAct
    /\ scene.actionPoints < playerAttackCost
    /\ \E j \in DOMAIN enemies :
          /\ enemies[j].isAlive
          /\ ~TooFar(j)
          /\ enemies[j].hp = enemies[j].maxHP - playerDamage
          /\ enemies[j].hp > 0
          /\ attackEnemy(scene, enemies, j) = scene

\* the hex may be entered by the player as hex k of a path of n hexes: no
\* wall, no live enemy, and a trap only if it is the last
Passable(sc, es, h, k, n) ==
    /\ ObstacleTypeAt(sc, h) # "wall"
    /\ EnemiesOn(es, h) = {}
    /\ ObstacleTypeAt(sc, h) = "trap" => k = n

\* C40: the path the player walks never enters a wall hex or the hex of a
\* live enemy, and enters a trap hex only as its last hex: so it is for the
\* whole path when the move starts, each hex next to the one before, and for
\* every hex at the time it is entered; the player is hurt during a move
\* only as the move ends, and by 1
C40_PathAvoidsObstacles ==
    [][ /\ MoveStarts =>
              LET path == scene'.tween.path
              IN  /\ \A k \in DOMAIN path :
                        /\ Passable(scene, enemies, Hex(path[k].q, path[k].r),
                                    k, Len(path))
                        /\ LET from == IF k = 1 THEN scene.playerPos
                                       ELSE path[k - 1]
                           IN  getDistance(from.q, from.r,
                                           path[k].q, path[k].r) = 1
        /\ HexEntered =>
              Passable(scene', enemies', scene'.playerPos,
                       scene'.tween.index, Len(scene'.tween.path))
        /\ (scene.tween.kind = "step"
              /\ scene'.playerHP # scene.playerHP) =>
              /\ MoveEnds
              /\ scene'.playerHP = scene.playerHP - 1
              /\ ObstacleTypeAt(scene, scene.playerPos) = "trap"
      ]_vars

\* the last step of the first move, three hexes long, to a hex two hexes
\* away: the hex between, next to both ends, holds a trap, and the path went
\* round it
C40_Witness ==
    /\ scene.tween.kind = "step"
    /\ scene.commands = 1
    /\ Len(scene.tween.path) = 3
    /\ scene.tween.index = 3
    /\ getDistance(WalkStart.q, WalkStart.r,
                   scene.playerPos.q, scene.playerPos.r) = 2
    /\ \E t \in scene.obstacles :
          /\ t.type = "trap"
          /\ getDistance(WalkStart.q, WalkStart.r, t.q, t.r) = 1
          /\ getDistance(scene.playerPos.q, scene.playerPos.r, t.q, t.r) = 1
          /\ \A k \in DOMAIN scene.tween.path :
                ~(scene.tween.path[k].q = t.q /\ scene.tween.path[k].r = t.r)
====
